---- MODULE Spec2Model ----
(***************************************************************************)
(* A model of dynatrace-sli-service: the get-sli request handler           *)
(* (retrieveMetrics and the helpers it calls), the credential and config   *)
(* loaders of package common, and the Dynatrace handler of                 *)
(* pkg/lib/dynatrace (SLI resolution, query building, vendor calls,        *)
(* dashboard lookup).                                                      *)
(*                                                                         *)
(* Go strings are TLA+ strings; the operators of Go's strings package the  *)
(* code uses are defined below on top of Len, \o and SubSeq.  A Go error   *)
(* is its message, the nil error is NoErr.  A float64 is a fraction        *)
(* [num, den] in lowest terms.                                             *)
(***************************************************************************)
EXTENDS Integers, Sequences, FiniteSets, TLC

-----------------------------------------------------------------------------
(* Go's strings package *)

HasPrefix(s, prefix) ==
  Len(s) >= Len(prefix) /\ SubSeq(s, 1, Len(prefix)) = prefix

\* strings.Index, 1-based, 0 for Go's -1
Index(s, sub) ==
  LET hits == {i \in 1..(Len(s) - Len(sub) + 1) : SubSeq(s, i, i + Len(sub) - 1) = sub}
  IN  IF hits = {} THEN 0 ELSE CHOOSE i \in hits : \A j \in hits : i <= j

Contains(s, sub) == Index(s, sub) # 0

\* strings.Split(s, sep) for a non-empty sep
RECURSIVE Split(_, _)
Split(s, sep) ==
  LET i == Index(s, sep)
  IN  IF i = 0 THEN <<s>>
      ELSE <<SubSeq(s, 1, i - 1)>> \o Split(SubSeq(s, i + Len(sep), Len(s)), sep)

\* strings.Replace(s, old, new, n) for a non-empty old; n < 0 replaces all
RECURSIVE Replace(_, _, _, _)
Replace(s, old, new, n) ==
  LET i == Index(s, old)
  IN  IF n = 0 \/ i = 0 THEN s
      ELSE SubSeq(s, 1, i - 1) \o new
             \o Replace(SubSeq(s, i + Len(old), Len(s)), old, new, n - 1)

ReplaceAll(s, old, new) == Replace(s, old, new, -1)

UpperLetters == "ABCDEFGHIJKLMNOPQRSTUVWXYZ"
LowerLetters == "abcdefghijklmnopqrstuvwxyz"

\* the letters of from mapped to the letters of to at the same place
LetterMap(from, to) ==
  [c \in {SubSeq(from, i, i) : i \in 1..Len(from)} |->
     SubSeq(to, Index(from, c), Index(from, c))]

LowerOf == LetterMap(UpperLetters, LowerLetters)
UpperOf == LetterMap(LowerLetters, UpperLetters)

MapLetter(c, map) == IF c \in DOMAIN map THEN map[c] ELSE c

\* the concatenation of parts[lo..hi]
RECURSIVE ConcatRange(_, _, _)
ConcatRange(parts, lo, hi) ==
  IF lo > hi THEN ""
  ELSE IF lo = hi THEN parts[lo]
  ELSE LET mid == (lo + hi) \div 2
       IN  ConcatRange(parts, lo, mid) \o ConcatRange(parts, mid + 1, hi)

ConcatAll(parts) == ConcatRange(parts, 1, Len(parts))

MapLetters(s, map) ==
  ConcatAll([i \in 1..Len(s) |-> MapLetter(SubSeq(s, i, i), map)])

ToLower(s) == MapLetters(s, LowerOf)
ToUpper(s) == MapLetters(s, UpperOf)

-----------------------------------------------------------------------------
(* values *)

NoErr == "<nil>"

RECURSIVE Gcd(_, _)
Gcd(a, b) == IF b = 0 THEN a ELSE Gcd(b, a % b)

Abs(n) == IF n < 0 THEN -n ELSE n

\* the float64 n/d
Float(n, d) ==
  LET g == Gcd(Abs(n), d) IN [num |-> n \div g, den |-> d \div g]

Zero == Float(0, 1)


-----------------------------------------------------------------------------
(* Go's net/url package, for printable ASCII *)

\* the printable ASCII characters, 0x20 to 0x7E, in code order; a TLA+ string
\* cannot hold the backquote (0x60), whose place a tab keeps
Ascii ==
  " !\"#$%&'()*+,-./0123456789:;<=>?@ABCDEFGHIJKLMNOPQRSTUVWXYZ[\\]^_\tabcdefghijklmnopqrstuvwxyz{|}~"

HexDigits == "0123456789ABCDEF"

\* the code of a one-character string
Code(c) == Index(Ascii, c) + 31

\* bytewise a < b
RECURSIVE StrLess(_, _)
StrLess(a, b) ==
  IF b = "" THEN FALSE
  ELSE IF a = "" THEN TRUE
  ELSE LET x == Code(SubSeq(a, 1, 1))
           y == Code(SubSeq(b, 1, 1))
       IN  IF x # y THEN x < y
           ELSE StrLess(SubSeq(a, 2, Len(a)), SubSeq(b, 2, Len(b)))

\* url.shouldEscape in query-component mode
Unreserved(c) ==
  \/ Contains(UpperLetters, c) \/ Contains(LowerLetters, c)
  \/ Contains("0123456789", c) \/ Contains("-_.~", c)

EscapeChar(c) ==
  LET n == Code(c)
  IN  IF c = " " THEN "+"
      ELSE IF Unreserved(c) THEN c
      ELSE "%" \o SubSeq(HexDigits, (n \div 16) + 1, (n \div 16) + 1)
               \o SubSeq(HexDigits, (n % 16) + 1, (n % 16) + 1)

\* url.QueryEscape
QueryEscape(s) == ConcatAll([i \in 1..Len(s) |-> EscapeChar(SubSeq(s, i, i))])

HexValue(c) == Index(HexDigits, ToUpper(c)) - 1

\* the code a piece that followed a "%" starts with, -1 when the piece does
\* not start with two hex digits of a printable character
EscapedCode(piece) ==
  IF Len(piece) < 2 \/ HexValue(SubSeq(piece, 1, 1)) < 0 \/ HexValue(SubSeq(piece, 2, 2)) < 0
  THEN -1
  ELSE LET n == 16 * HexValue(SubSeq(piece, 1, 1)) + HexValue(SubSeq(piece, 2, 2))
       IN  IF n < 32 \/ n > 126 THEN -1 ELSE n

\* url.QueryUnescape: [ok, s]; ok is FALSE for a "%" not followed by two hex digits
QueryUnescape(s) ==
  LET pieces  == Split(s, "%")
      plus(t) == ReplaceAll(t, "+", " ")
      decoded == [i \in 1..Len(pieces) |->
                   IF i = 1 THEN plus(pieces[i])
                   ELSE LET n == EscapedCode(pieces[i])
                        IN  IF n < 0 THEN ""
                            ELSE SubSeq(Ascii, n - 31, n - 31)
                                   \o plus(SubSeq(pieces[i], 3, Len(pieces[i])))]
  IN  IF \E i \in 2..Len(pieces) : EscapedCode(pieces[i]) < 0
      THEN [ok |-> FALSE, s |-> ""]
      ELSE [ok |-> TRUE, s |-> ConcatAll(decoded)]

\* url.ParseQuery: the key/value pairs in order of appearance; a pair that does
\* not decode is dropped (the callers discard ParseQuery's error)
RECURSIVE ParseQuery(_)
ParseQuery(query) ==
  IF query = "" THEN <<>>
  ELSE LET i     == Index(query, "&")
           piece == IF i = 0 THEN query ELSE SubSeq(query, 1, i - 1)
           rest  == IF i = 0 THEN "" ELSE SubSeq(query, i + 1, Len(query))
           j     == Index(piece, "=")
           key   == QueryUnescape(IF j = 0 THEN piece ELSE SubSeq(piece, 1, j - 1))
           value == QueryUnescape(IF j = 0 THEN "" ELSE SubSeq(piece, j + 1, Len(piece)))
       IN  IF piece = "" \/ Contains(piece, ";") \/ ~key.ok \/ ~value.ok
           THEN ParseQuery(rest)
           ELSE <<[key |-> key.s, value |-> value.s]>> \o ParseQuery(rest)

\* url.Values.Get: the first value of the key, "" when there is none
RECURSIVE ValuesGet(_, _)
ValuesGet(q, key) ==
  IF q = <<>> THEN ""
  ELSE IF Head(q).key = key THEN Head(q).value
  ELSE ValuesGet(Tail(q), key)

\* url.Values.Add
ValuesAdd(q, key, value) == Append(q, [key |-> key, value |-> value])

\* the keys of q, sorted
RECURSIVE SortedKeys(_)
SortedKeys(keys) ==
  IF keys = {} THEN <<>>
  ELSE LET least == CHOOSE k \in keys : \A o \in keys : o = k \/ StrLess(k, o)
       IN  <<least>> \o SortedKeys(keys \ {least})

RECURSIVE EncodeKey(_, _)
EncodeKey(q, key) ==
  IF q = <<>> THEN <<>>
  ELSE (IF Head(q).key = key
        THEN <<QueryEscape(key) \o "=" \o QueryEscape(Head(q).value)>>
        ELSE <<>>) \o EncodeKey(Tail(q), key)

RECURSIVE Join(_, _)
Join(parts, sep) ==
  IF parts = <<>> THEN ""
  ELSE IF Len(parts) = 1 THEN parts[1]
  ELSE parts[1] \o sep \o Join(Tail(parts), sep)

RECURSIVE Flatten(_)
Flatten(seqs) == IF seqs = <<>> THEN <<>> ELSE Head(seqs) \o Flatten(Tail(seqs))

\* url.Values.Encode: "key=value" pairs sorted by key, each side escaped
ValuesEncode(q) ==
  LET keys == SortedKeys({q[i].key : i \in 1..Len(q)})
  IN  Join(Flatten([i \in 1..Len(keys) |-> EncodeKey(q, keys[i])]), "&")

\* url.Parse(...).RawQuery of a URL without fragment in its base: the text
\* between the first "?" and the first "#"
RawQuery(rawurl) ==
  LET h      == Index(rawurl, "#")
      nofrag == IF h = 0 THEN rawurl ELSE SubSeq(rawurl, 1, h - 1)
      i      == Index(nofrag, "?")
  IN  IF i = 0 THEN "" ELSE SubSeq(nofrag, i + 1, Len(nofrag))

\* the URL up to and excluding its "?"
BeforeQuery(rawurl) ==
  LET h      == Index(rawurl, "#")
      nofrag == IF h = 0 THEN rawurl ELSE SubSeq(rawurl, 1, h - 1)
      i      == Index(nofrag, "?")
  IN  IF i = 0 THEN nofrag ELSE SubSeq(nofrag, 1, i - 1)

-----------------------------------------------------------------------------
(* package common: credentials and dynatrace.conf.yaml *)

\* a nil *DTCredentials
NilCredentials == [isNil |-> TRUE, Tenant |-> "", ApiToken |-> "", PaaSToken |-> ""]

\* NormaliseTenant with https:// put in front of every tenant
NormaliseTenantAlways(tenant) == "https://" \o tenant

\* the end of GetDTCredentials: "ensure URL always has http or https in front"
NormaliseTenant(tenant) ==
  IF HasPrefix(tenant, "https://") \/ HasPrefix(tenant, "http://") THEN tenant
  ELSE "https://" \o tenant

\* GetDTCredentials(dynatraceSecretName).  local: RunLocal || RunLocalTest;
\* environ: the process environment; lookup: what the secret store answers,
\* [kubeErr, getErr, Data].  The result is [creds, err, looked], looked telling
\* whether the secret store was asked.
GetDTCredentials(dynatraceSecretName, local, environ, lookup) ==
  LET found(d) == [isNil |-> FALSE, Tenant |-> NormaliseTenant(d.DT_TENANT),
                   ApiToken |-> d.DT_API_TOKEN, PaaSToken |-> d.DT_PAAS_TOKEN]
  IN  IF dynatraceSecretName = ""
      THEN [creds |-> NilCredentials, err |-> NoErr, looked |-> FALSE]
      ELSE IF local
      THEN [creds |-> found(environ), err |-> NoErr, looked |-> FALSE]
      ELSE IF lookup.kubeErr # NoErr
      THEN [creds |-> NilCredentials, err |-> lookup.kubeErr, looked |-> FALSE]
      ELSE IF lookup.getErr # NoErr
      THEN [creds |-> NilCredentials, err |-> lookup.getErr, looked |-> TRUE]
      ELSE IF \/ lookup.Data.DT_TENANT = ""
              \/ lookup.Data.DT_API_TOKEN = ""
              \/ lookup.Data.DT_PAAS_TOKEN = ""
      THEN [creds |-> NilCredentials, err |-> "invalid or no Dynatrace credentials found",
            looked |-> TRUE]
      ELSE [creds |-> found(lookup.Data), err |-> NoErr, looked |-> TRUE]

\* SecretNames with the global secret first
SecretNamesGlobalFirst(secretName, project) ==
  <<"dynatrace", "dynatrace-credentials", "dynatrace-credentials-" \o project, secretName>>

\* the secret names getDynatraceCredentials tries, in order
SecretNames(secretName, project) ==
  <<secretName, "dynatrace-credentials-" \o project, "dynatrace-credentials", "dynatrace">>

\* the loop of getDynatraceCredentials from attempt i on; lookups[i] is the
\* secret store's answer to the i-th attempt
RECURSIVE TrySecrets(_, _, _, _, _)
TrySecrets(names, i, local, environ, lookups) ==
  IF i > Len(names)
  THEN [creds |-> NilCredentials,
        err |-> "Couldn't find any dynatrace specific secrets in namespace keptn",
        tried |-> <<>>]
  ELSE LET r == GetDTCredentials(names[i], local, environ, lookups[i])
           t == IF r.looked THEN <<names[i]>> ELSE <<>>
       IN  IF ~r.creds.isNil
           THEN [creds |-> r.creds, err |-> NoErr, tried |-> t]
           ELSE LET rest == TrySecrets(names, i + 1, local, environ, lookups)
                IN  [rest EXCEPT !.tried = t \o rest.tried]

\* getDynatraceCredentials(secretName, project): [creds, err, tried], tried
\* being the names the secret store was asked for, in order
getDynatraceCredentials(secretName, project, local, environ, lookups) ==
  TrySecrets(SecretNames(secretName, project), 1, local, environ, lookups)

\* a nil *DynatraceConfigFile
NilConfigFile == [isNil |-> TRUE, SpecVersion |-> "", DtCreds |-> ""]

\* the value of "key: value" in a YAML document of such lines, "" when absent
YamlField(lines, key) ==
  LET hits == {i \in 1..Len(lines) : HasPrefix(lines[i], key \o ": ")}
  IN  IF hits = {} THEN ""
      ELSE LET i == CHOOSE h \in hits : \A o \in hits : h >= o
           IN  SubSeq(lines[i], Len(key) + 3, Len(lines[i]))

\* parseDynatraceConfigFile: yaml.Unmarshal of a document of "key: value"
\* lines; a non-empty line of another shape is a YAML error
parseDynatraceConfigFile(input) ==
  LET lines == IF input = "" THEN <<>> ELSE Split(input, "\n")
      bad   == \E i \in 1..Len(lines) : lines[i] # "" /\ ~Contains(lines[i], ": ")
  IN  IF bad
      THEN [file |-> NilConfigFile, err |-> "yaml: unmarshal errors"]
      ELSE [file |-> [isNil |-> FALSE,
                      SpecVersion |-> YamlField(lines, "spec_version"),
                      DtCreds |-> YamlField(lines, "dtCreds")],
            err |-> NoErr]

\* NoResource taking an empty resource for a resource
NoResourceUnlessEmpty(r) == r.err # NoErr \/ r.isNil

\* whether a config-store answer [err, isNil, ResourceContent] is passed over
NoResource(r) == r.err # NoErr \/ r.isNil \/ r.ResourceContent = ""

\* getDynatraceConfig(keptnEvent).  runLocal: RunLocal; localFile: [err, content]
\* of the local file; service, stage, project: what the config store answers at
\* each scope.  The result is [file, err, consulted], consulted being the scopes
\* asked, in order.
getDynatraceConfig(runLocal, localFile, service, stage, project) ==
  LET parsed(content, consulted) ==
        LET p == parseDynatraceConfigFile(content)
        IN  IF p.err # NoErr
            THEN [file |-> NilConfigFile,
                  err |-> "Couldn't parse dynatrace/dynatrace.conf.yaml file. Error: " \o p.err,
                  consulted |-> consulted]
            ELSE [file |-> p.file, err |-> NoErr, consulted |-> consulted]
  IN  IF runLocal
      THEN IF localFile.err # NoErr
           THEN [file |-> NilConfigFile, err |-> NoErr, consulted |-> <<>>]
           ELSE parsed(localFile.content, <<>>)
      ELSE IF NoResource(service)
      THEN IF NoResource(stage)
           THEN IF NoResource(project)
                THEN [file |-> NilConfigFile, err |-> project.err,
                      consulted |-> <<"service", "stage", "project">>]
                ELSE parsed(project.ResourceContent, <<"service", "stage", "project">>)
           ELSE parsed(stage.ResourceContent, <<"service", "stage">>)
      ELSE parsed(service.ResourceContent, <<"service">>)

\* replaceKeptnPlaceholders(input, keptnEvent); Labels is the label map in the
\* order the range statement visits it
RECURSIVE ReplaceLabels(_, _)
ReplaceLabels(input, labels) ==
  IF labels = <<>> THEN input
  ELSE ReplaceLabels(ReplaceAll(input, "$LABEL." \o Head(labels).key, Head(labels).value),
                     Tail(labels))

ReplaceKeptnPlaceholders(input, keptnEvent) ==
  LET r1 == ReplaceAll(input, "$CONTEXT", keptnEvent.Context)
      r2 == ReplaceAll(r1, "$EVENT", keptnEvent.Event)
      r3 == ReplaceAll(r2, "$SOURCE", keptnEvent.Source)
      r4 == ReplaceAll(r3, "$PROJECT", keptnEvent.Project)
      r5 == ReplaceAll(r4, "$STAGE", keptnEvent.Stage)
      r6 == ReplaceAll(r5, "$SERVICE", keptnEvent.Service)
      r7 == ReplaceAll(r6, "$DEPLOYMENT", keptnEvent.Deployment)
      r8 == ReplaceAll(r7, "$TESTSTRATEGY", keptnEvent.TestStrategy)
  IN  ReplaceLabels(r8, keptnEvent.Labels)

\* common.TimestampToString: the time in epoch milliseconds, in decimal
TimestampToString(t) == ToString(t)

-----------------------------------------------------------------------------
(* package dynatrace: the Handler.  A handler ph is a record [ApiURL,         *)
(* KeptnEvent, Headers, CustomQueries, CustomFilters]; CustomQueries is a     *)
(* function from indicator names to queries, CustomFilters a sequence of      *)
(* [Key, Value].  A vendor answer http is [err, status, body]: err is the     *)
(* transport error of executeDynatraceREST (then there is no response), body  *)
(* the decoded JSON, [valid |-> FALSE] when it is not JSON of the wanted      *)
(* shape.                                                                     *)

Throughput == "throughput"
ErrorRate == "error_rate"
ResponseTimeP50 == "response_time_p50"
ResponseTimeP90 == "response_time_p90"
ResponseTimeP95 == "response_time_p95"

\* the entitySelector every default SLI query ends with
DefaultEntitySelector ==
  "&entitySelector=type(SERVICE),tag(keptn_project:$PROJECT),tag(keptn_stage:$STAGE),tag(keptn_service:$SERVICE),tag(keptn_deployment:$DEPLOYMENT)"

\* the query the switch of getTimeseriesConfig returns for a built-in name
DefaultQuery(metric) ==
  CASE metric = Throughput ->
         "metricSelector=builtin:service.requestCount.total:merge(0):sum" \o DefaultEntitySelector
    [] metric = ErrorRate ->
         "metricSelector=builtin:service.errors.total.count:merge(0):avg" \o DefaultEntitySelector
    [] metric = ResponseTimeP50 ->
         "metricSelector=builtin:service.response.time:merge(0):percentile(50)" \o DefaultEntitySelector
    [] metric = ResponseTimeP90 ->
         "metricSelector=builtin:service.response.time:merge(0):percentile(90)" \o DefaultEntitySelector
    [] metric = ResponseTimeP95 ->
         "metricSelector=builtin:service.response.time:merge(0):percentile(95)" \o DefaultEntitySelector
    [] OTHER -> ""

\* getTimeseriesConfig looking at the built-in names before the custom queries
getTimeseriesConfigDefaultsFirst(ph, metric) ==
  IF metric \in {Throughput, ErrorRate, ResponseTimeP50, ResponseTimeP90, ResponseTimeP95}
  THEN [query |-> DefaultQuery(metric), err |-> NoErr]
  ELSE IF metric \in DOMAIN ph.CustomQueries
  THEN [query |-> ph.CustomQueries[metric], err |-> NoErr]
  ELSE [query |-> "", err |-> "unsupported SLI metric " \o metric]

\* getTimeseriesConfig(metric): [query, err]
getTimeseriesConfig(ph, metric) ==
  IF metric \in DOMAIN ph.CustomQueries
  THEN [query |-> ph.CustomQueries[metric], err |-> NoErr]
  ELSE IF metric \in {Throughput, ErrorRate, ResponseTimeP50, ResponseTimeP90, ResponseTimeP95}
  THEN [query |-> DefaultQuery(metric), err |-> NoErr]
  ELSE [query |-> "", err |-> "unsupported SLI metric " \o metric]

\* the custom filters after the loop of replaceQueryParameters stripped the
\* quotes of every value (the filters are shared with the request)
StripFilters(filters) ==
  [i \in 1..Len(filters) |->
     [Key |-> filters[i].Key,
      Value |-> ReplaceAll(ReplaceAll(filters[i].Value, "'", ""), "\"", "")]]

RECURSIVE ApplyFilters(_, _)
ApplyFilters(query, filters) ==
  IF filters = <<>> THEN query
  ELSE LET f  == Head(filters)
           q1 == ReplaceAll(query, "$" \o f.Key, f.Value)
           q2 == ReplaceAll(q1, "$" \o ToUpper(f.Key), f.Value)
       IN  ApplyFilters(q2, Tail(filters))

\* replaceQueryParameters(query): [query, CustomFilters]
replaceQueryParameters(ph, query) ==
  LET filters == StripFilters(ph.CustomFilters)
  IN  [query |-> ReplaceKeptnPlaceholders(ApplyFilters(query, filters), ph.KeptnEvent),
       CustomFilters |-> filters]

\* u.String() after u.RawQuery was set to encoded
URLString(targetURL, encoded) ==
  LET h == Index(targetURL, "#")
  IN  BeforeQuery(targetURL) \o "?" \o encoded
        \o (IF h = 0 \/ h = Len(targetURL) THEN "" ELSE SubSeq(targetURL, h, Len(targetURL)))

\* BuildDynatraceUSQLQuery(query, startUnix, endUnix): [url, CustomFilters]
BuildDynatraceUSQLQuery(ph, query, startUnix, endUnix) ==
  LET r  == replaceQueryParameters(ph, query)
      q1 == ValuesAdd(<<>>, "query", r.query)
      q2 == ValuesAdd(q1, "explain", "false")
      q3 == ValuesAdd(q2, "addDeepLinkFields", "false")
      q4 == ValuesAdd(q3, "startTimestamp", TimestampToString(startUnix))
      q5 == ValuesAdd(q4, "endTimestamp", TimestampToString(endUnix))
  IN  [url |-> ph.ApiURL \o "/api/v1/userSessionQueryLanguage/table" \o "?" \o ValuesEncode(q5),
       CustomFilters |-> r.CustomFilters]

\* TimedQuery without the window
TimedQueryWithoutWindow(targetURL, startUnix, endUnix) ==
  ValuesAdd(ParseQuery(RawQuery(targetURL)), "resolution", "Inf")

\* lines 602-615: the parameters of the target URL with resolution, from, to
TimedQuery(targetURL, startUnix, endUnix) ==
  ValuesAdd(ValuesAdd(ValuesAdd(ParseQuery(RawQuery(targetURL)), "resolution", "Inf"),
                      "from", TimestampToString(startUnix)),
            "to", TimestampToString(endUnix))

\* WithEntitySelector copying the scope as it is
WithEntitySelectorAsGiven(q, scopeData) ==
  IF scopeData = "" THEN q ELSE ValuesAdd(q, "entitySelector", scopeData)

\* lines 620-630: the scope added as entitySelector
WithEntitySelector(q, scopeData) ==
  IF scopeData = "" THEN q
  ELSE ValuesAdd(q, "entitySelector",
                 IF Contains(scopeData, "type(SERVICE)") THEN scopeData
                 ELSE scopeData \o ",type(SERVICE)")

\* lines 617-631
ScopedQuery(q) == WithEntitySelector(q, ValuesGet(q, "scope"))

\* lines 584, 594, 633-640: the final query q encoded into the URL, and the
\* metric selector the query answers with
FinishMetricsQuery(targetURL, q, querySplit, filters) ==
  [url |-> URLString(targetURL, ValuesEncode(q)),
   metricSelector |-> IF Len(querySplit) # 1 /\ querySplit[1] # "" THEN querySplit[1]
                      ELSE ValuesGet(q, "metricSelector"),
   CustomFilters |-> filters]

\* lines 610-640 for the target URL
BuildForTargetURL(targetURL, querySplit, startUnix, endUnix, filters) ==
  FinishMetricsQuery(targetURL, ScopedQuery(TimedQuery(targetURL, startUnix, endUnix)),
                     querySplit, filters)

\* BuildSplitMetricsQuery dropping the parameters of a legacy query
BuildSplitMetricsQuerySelectorOnly(ph, querySplit, startUnix, endUnix, filters) ==
  BuildForTargetURL(ph.ApiURL \o "/api/v2/metrics/query/?"
                      \o (IF Len(querySplit) = 1 THEN querySplit[1]
                          ELSE "metricSelector=" \o querySplit[1]),
                    querySplit, startUnix, endUnix, filters)

\* lines 583-640 for the split query
BuildSplitMetricsQuery(ph, querySplit, startUnix, endUnix, filters) ==
  BuildForTargetURL(ph.ApiURL \o "/api/v2/metrics/query/?"
                      \o (IF Len(querySplit) = 1 THEN querySplit[1]
                          ELSE "metricSelector=" \o querySplit[1] \o "&" \o querySplit[2]),
                    querySplit, startUnix, endUnix, filters)

\* lines 577-640, r being what replaceQueryParameters returned
BuildReplacedMetricsQuery(ph, r, startUnix, endUnix) ==
  BuildSplitMetricsQuery(ph,
                         Split(IF HasPrefix(r.query, "?metricSelector=")
                               THEN Replace(r.query, "?metricSelector=", "metricSelector=", 1)
                               ELSE r.query,
                               "?"),
                         startUnix, endUnix, r.CustomFilters)

\* BuildDynatraceMetricsQuery(metricquery, startUnix, endUnix):
\* [url, metricSelector, CustomFilters]
BuildDynatraceMetricsQuery(ph, metricquery, startUnix, endUnix) ==
  BuildReplacedMetricsQuery(ph, replaceQueryParameters(ph, metricquery), startUnix, endUnix)

\* a field of a decoded JSON body, its zero value when the body lacks it
Field(body, name, zero) == IF name \in DOMAIN body THEN body[name] ELSE zero

\* the error ExecuteMetricsAPIQuery and ExecuteMetricAPIDescribe build for a
\* status other than 200 (after their check of the status returned already)
StatusError(http) ==
  IF "error" \in DOMAIN http.body
  THEN "Dynatrace API returned status code " \o ToString(http.body.error.code)
         \o ": " \o http.body.error.message
  ELSE "Dynatrace API returned status code " \o ToString(http.status)
         \o " - Metric could not be received."

\* ExecuteMetricAPIDescribe(metricID): the MetricDefinition [isNil, MetricID,
\* Unit, DefaultAggregation, DimensionDefinitions, EntityType] with err
ExecuteMetricAPIDescribe(http) ==
  LET none(e) == [isNil |-> TRUE, MetricID |-> "", Unit |-> "",
                  DefaultAggregation |-> [Type |-> ""], DimensionDefinitions |-> <<>>,
                  EntityType |-> <<>>, err |-> e]
  IN  IF http.err # NoErr THEN none(http.err)
      ELSE IF http.status # 200 THEN none("No valid response from metrics api!")
      ELSE IF ~http.body.valid THEN none("json: cannot unmarshal")
      ELSE IF http.status # 200 THEN none(StatusError(http))
      ELSE [isNil |-> FALSE,
            MetricID |-> Field(http.body, "metricId", ""),
            Unit |-> Field(http.body, "unit", ""),
            DefaultAggregation |-> Field(http.body, "defaultAggregation", [Type |-> ""]),
            DimensionDefinitions |-> Field(http.body, "dimensionDefinitions", <<>>),
            EntityType |-> Field(http.body, "entityType", <<>>),
            err |-> NoErr]

\* ExecuteMetricsAPIQuery(metricsQuery): [isNil, Result, err]
ExecuteMetricsAPIQuery(http) ==
  LET none(e) == [isNil |-> TRUE, Result |-> <<>>, err |-> e]
  IN  IF http.err # NoErr THEN none(http.err)
      ELSE IF http.status # 200 THEN none("No valid response from metrics api!")
      ELSE IF ~http.body.valid THEN none("json: cannot unmarshal")
      ELSE IF http.status # 200 THEN none(StatusError(http))
      ELSE IF Len(Field(http.body, "result", <<>>)) = 0
      THEN none("Dynatrace Metrics API returned no DataPoints")
      ELSE [isNil |-> FALSE, Result |-> http.body.result, err |-> NoErr]

\* ExecuteUSQLQuery(usql): [isNil, Values, err]
ExecuteUSQLQuery(http) ==
  LET none(e) == [isNil |-> TRUE, Values |-> <<>>, err |-> e]
  IN  IF http.err # NoErr \/ http.status # 200 THEN none(http.err)
      ELSE IF ~http.body.valid THEN none("json: cannot unmarshal")
      ELSE IF http.status # 200 THEN none(StatusError(http))
      ELSE IF Len(Field(http.body, "values", <<>>)) = 0
      THEN none("Dynatrace USQL Query didnt return any DataPoints")
      ELSE [isNil |-> FALSE, Values |-> http.body.values, err |-> NoErr]

\* isMatchingMetricID(singleResultMetricID, queryMetricID)
isMatchingMetricID(singleResultMetricID, queryMetricID) ==
  IF singleResultMetricID = queryMetricID THEN TRUE
  ELSE IF Contains(singleResultMetricID, "~")
  THEN IF Contains(singleResultMetricID, ":") /\ Contains(singleResultMetricID, ":")
       THEN Split(singleResultMetricID, ":")[1] = Split(queryMetricID, ":")[1]
       ELSE FALSE
  ELSE FALSE

\* the float64 quotient value / k for k = 1000 or 1024. A value with the field
\* exp is num * 2^exp, written so for the smallest float64 magnitudes, 2^-1074;
\* their quotient is below half of the smallest magnitude and rounds to a
\* zero, which compares equal to 0 whatever its sign. 0/0 is NaN and stays NaN
Divide(value, k) ==
  IF "exp" \in DOMAIN value THEN Zero
  ELSE IF value.den = 0 THEN value
  ELSE Float(value.num, value.den * k)

\* scaleData testing the Byte unit first
scaleDataByteFirst(metricID, unit, value) ==
  IF unit = "Byte"
  THEN Divide(value, 1024)
  ELSE IF unit = "MicroSecond" \/ Contains(metricID, "builtin:service.response.time")
  THEN Divide(value, 1000)
  ELSE value

\* scaleData(metricID, unit, value)
scaleData(metricID, unit, value) ==
  IF unit = "MicroSecond" \/ Contains(metricID, "builtin:service.response.time")
  THEN Divide(value, 1000)
  ELSE IF unit = "Byte"
  THEN Divide(value, 1024)
  ELSE value

\* a cell of a USQL row is [str |-> s] or [num |-> f]
IsNum(cell) == "num" \in DOMAIN cell
IsStr(cell) == "str" \in DOMAIN cell

\* the rows read with the value of a TABLE row taken from its second cell
UsqlRowSecondCell(rowValue, tileType) ==
  IF tileType \in {"PIE_CHART", "COLUMN_CHART", "TABLE"}
  THEN IF Len(rowValue) < 2 \/ ~IsStr(rowValue[1]) \/ ~IsNum(rowValue[2])
       THEN [panic |-> TRUE, skip |-> FALSE, dimensionName |-> "", dimensionValue |-> Zero]
       ELSE [panic |-> FALSE, skip |-> FALSE, dimensionName |-> rowValue[1].str,
             dimensionValue |-> rowValue[2].num]
  ELSE IF tileType = "SINGLE_VALUE"
  THEN IF Len(rowValue) < 1 \/ ~IsNum(rowValue[1])
       THEN [panic |-> TRUE, skip |-> FALSE, dimensionName |-> "", dimensionValue |-> Zero]
       ELSE [panic |-> FALSE, skip |-> FALSE, dimensionName |-> "",
             dimensionValue |-> rowValue[1].num]
  ELSE [panic |-> FALSE, skip |-> TRUE, dimensionName |-> "", dimensionValue |-> Zero]

\* what the row loops of GetSLIValue and of the DTAQL tiles read from one row
\* for a tile type: [panic, skip, dimensionName, dimensionValue]; panic is a
\* failed type assertion or an index out of range, skip an unsupported type
UsqlRow(rowValue, tileType) ==
  LET out(p, k, n, v) ==
        [panic |-> p, skip |-> k, dimensionName |-> n, dimensionValue |-> v]
      last == rowValue[Len(rowValue)]
  IN  IF tileType = "SINGLE_VALUE"
      THEN IF Len(rowValue) < 1 \/ ~IsNum(rowValue[1]) THEN out(TRUE, FALSE, "", Zero)
           ELSE out(FALSE, FALSE, "", rowValue[1].num)
      ELSE IF tileType \in {"PIE_CHART", "COLUMN_CHART"}
      THEN IF Len(rowValue) < 2 \/ ~IsStr(rowValue[1]) \/ ~IsNum(rowValue[2])
           THEN out(TRUE, FALSE, "", Zero)
           ELSE out(FALSE, FALSE, rowValue[1].str, rowValue[2].num)
      ELSE IF tileType = "TABLE"
      THEN IF Len(rowValue) < 1 \/ ~IsStr(rowValue[1]) \/ ~IsNum(last)
           THEN out(TRUE, FALSE, "", Zero)
           ELSE out(FALSE, FALSE, rowValue[1].str, last.num)
      ELSE out(FALSE, TRUE, "", Zero)

\* the row loop of GetSLIValue from row i on, acc being
\* [panic, metricIDExists, actualMetricValue] so far
RECURSIVE UsqlScan(_, _, _, _, _)
UsqlScan(rows, i, tileName, requestedDimensionName, acc) ==
  IF i > Len(rows) \/ acc.panic THEN acc
  ELSE LET r == UsqlRow(rows[i], tileName)
       IN  UsqlScan(rows, i + 1, tileName, requestedDimensionName,
             IF r.panic THEN [acc EXCEPT !.panic = TRUE]
             ELSE IF ~r.skip /\ r.dimensionName = requestedDimensionName
             THEN [acc EXCEPT !.metricIDExists = TRUE,
                              !.actualMetricValue = r.dimensionValue]
             ELSE acc)

\* the result loop taking the first value of the first data entry of the
\* first matching result that has one, however many entries it has
RECURSIVE MetricScanAnyEntry(_, _, _)
MetricScanAnyEntry(results, i, metricID) ==
  IF i > Len(results)
  THEN [panic |-> FALSE, err |-> NoErr, metricIDExists |-> FALSE, actualMetricValue |-> Zero]
  ELSE IF isMatchingMetricID(results[i].metricId, metricID)
  THEN IF Len(results[i].data) = 0
       THEN [panic |-> FALSE, err |-> NoErr, metricIDExists |-> TRUE, actualMetricValue |-> Zero]
       ELSE IF Len(results[i].data[1].values) = 0
       THEN [panic |-> TRUE, err |-> NoErr, metricIDExists |-> TRUE, actualMetricValue |-> Zero]
       ELSE [panic |-> FALSE, err |-> NoErr, metricIDExists |-> TRUE,
             actualMetricValue |-> results[i].data[1].values[1]]
  ELSE MetricScanAnyEntry(results, i + 1, metricID)

\* the result loop of GetSLIValue from result i on:
\* [panic, err, metricIDExists, actualMetricValue]
RECURSIVE MetricScan(_, _, _)
MetricScan(results, i, metricID) ==
  IF i > Len(results)
  THEN [panic |-> FALSE, err |-> NoErr, metricIDExists |-> FALSE, actualMetricValue |-> Zero]
  ELSE IF isMatchingMetricID(results[i].metricId, metricID)
  THEN IF Len(results[i].data) # 1
       THEN [panic |-> FALSE,
             err |-> "Dynatrace Metrics API returned " \o ToString(Len(results[i].data))
                       \o " result values, expected 1. Please ensure the response contains exactly one value (e.g., by using :merge(0):avg for the metric). Here is the output for troubleshooting: "
                       \o results[i].metricId,
             metricIDExists |-> TRUE, actualMetricValue |-> Zero]
       ELSE IF Len(results[i].data[1].values) = 0
       THEN [panic |-> TRUE, err |-> NoErr, metricIDExists |-> TRUE, actualMetricValue |-> Zero]
       ELSE [panic |-> FALSE, err |-> NoErr, metricIDExists |-> TRUE,
             actualMetricValue |-> results[i].data[1].values[1]]
  ELSE MetricScan(results, i + 1, metricID)

\* what GetSLIValue holds when it reaches its vendor call or ends before it.
\* kind is "usql" or "metrics", "none" when the function ends before it calls
\* the vendor, then with err or with panic (a slice index out of range)
SLIPlan(kind, err, panic, url, tileName, dimension, metricSelector, metricUnit, filters) ==
  [kind |-> kind, err |-> err, panic |-> panic, url |-> url, tileName |-> tileName,
   requestedDimensionName |-> dimension, metricSelector |-> metricSelector,
   metricUnit |-> metricUnit, CustomFilters |-> filters]

\* lines 1262-1265, b being what BuildDynatraceUSQLQuery returned
PlanUSQL(b, querySplits) ==
  SLIPlan("usql", NoErr, FALSE, b.url, querySplits[2], querySplits[3], "", "", b.CustomFilters)

\* lines 1254-1265: USQL;TILE_TYPE;DIMENSION;QUERY
PrepareUSQLQuery(ph, query, querySplits, startUnix, endUnix) ==
  IF Len(querySplits) # 4
  THEN SLIPlan("none", "USQL Query incorrect format: " \o query, FALSE,
               "", "", "", "", "", ph.CustomFilters)
  ELSE PlanUSQL(BuildDynatraceUSQLQuery(ph, querySplits[4], startUnix, endUnix), querySplits)

\* line 1315, b being what BuildDynatraceMetricsQuery returned
PlanMetrics(b, metricUnit) ==
  SLIPlan("metrics", NoErr, FALSE, b.url, "", "", b.metricSelector, metricUnit, b.CustomFilters)

\* lines 1305-1315: metricsQuery after "MV2;", queryStartIndex the place of its
\* first ";" (0 when it has none: the slice expression panics)
PrepareMV2Query(ph, metricsQuery, queryStartIndex, startUnix, endUnix) ==
  IF queryStartIndex = 0
  THEN SLIPlan("none", NoErr, TRUE, "", "", "", "", "", ph.CustomFilters)
  ELSE PlanMetrics(BuildDynatraceMetricsQuery(
                     ph, SubSeq(metricsQuery, queryStartIndex + 1, Len(metricsQuery)),
                     startUnix, endUnix),
                   SubSeq(metricsQuery, 1, queryStartIndex - 1))

\* lines 1299-1315
PrepareMetricsQuery(ph, metricsQuery, startUnix, endUnix) ==
  IF HasPrefix(metricsQuery, "MV2;")
  THEN PrepareMV2Query(ph, SubSeq(metricsQuery, 5, Len(metricsQuery)),
                       Index(SubSeq(metricsQuery, 5, Len(metricsQuery)), ";"),
                       startUnix, endUnix)
  ELSE PlanMetrics(BuildDynatraceMetricsQuery(ph, metricsQuery, startUnix, endUnix), "")

\* lines 1241-1315, cfg being what getTimeseriesConfig returned
PrepareResolvedQuery(ph, metric, cfg, startUnix, endUnix) ==
  IF cfg.err # NoErr
  THEN SLIPlan("none", "Error when fetching SLI config for " \o metric \o " " \o cfg.err \o "\n",
               FALSE, "", "", "", "", "", ph.CustomFilters)
  ELSE IF HasPrefix(cfg.query, "USQL;")
  THEN PrepareUSQLQuery(ph, cfg.query, Split(cfg.query, ";"), startUnix, endUnix)
  ELSE PrepareMetricsQuery(ph, cfg.query, startUnix, endUnix)

\* GetSLIValue up to the vendor call: the query of the indicator resolved,
\* split and built into the request to send
PrepareSLIQuery(ph, metric, startUnix, endUnix) ==
  PrepareResolvedQuery(ph, metric, getTimeseriesConfig(ph, metric), startUnix, endUnix)

\* GetSLIValue from the vendor call on, the vendor answering http:
\* [value, err, panic, calls, CustomFilters]; calls are the vendor calls made,
\* panic tells that the function panicked
EvaluateSLIQuery(q, metric, http) ==
  LET out(v, e, p, c) ==
        [value |-> v, err |-> e, panic |-> p, calls |-> c, CustomFilters |-> q.CustomFilters]
      notFound == "Not able to query identifier " \o metric \o " from Dynatrace"
      calls == <<[api |-> q.kind, arg |-> q.url]>>
  IN  IF q.kind = "none" THEN out(Zero, q.err, q.panic, <<>>)
      ELSE IF q.kind = "usql"
      THEN LET res  == ExecuteUSQLQuery(http)
               scan == UsqlScan(res.Values, 1, q.tileName, q.requestedDimensionName,
                                [panic |-> FALSE, metricIDExists |-> FALSE,
                                 actualMetricValue |-> Zero])
           IN  IF res.err # NoErr
               THEN out(Zero, "Error executing USQL Query " \o res.err, FALSE, calls)
               ELSE IF res.isNil \/ scan.panic
               THEN out(Zero, NoErr, TRUE, calls)
               ELSE IF ~scan.metricIDExists
               THEN out(Zero, notFound, FALSE, calls)
               ELSE out(scan.actualMetricValue, NoErr, FALSE, calls)
      ELSE LET res  == ExecuteMetricsAPIQuery(http)
               scan == MetricScan(res.Result, 1, q.metricSelector)
           IN  IF res.err # NoErr
               THEN out(Zero, "error from Execute Metrics API Query: " \o res.err \o "\n",
                        FALSE, calls)
               ELSE IF scan.panic
               THEN out(Zero, NoErr, TRUE, calls)
               ELSE IF scan.err # NoErr
               THEN out(Zero, scan.err, FALSE, calls)
               ELSE IF ~scan.metricIDExists
               THEN out(Zero, notFound, FALSE, calls)
               ELSE out(scaleData(q.metricSelector, q.metricUnit, scan.actualMetricValue),
                        NoErr, FALSE, calls)

\* GetSLIValue(metric, startUnix, endUnix) when the vendor answers http to the
\* call it makes, if it makes one
GetSLIValue(ph, metric, startUnix, endUnix, http) ==
  EvaluateSLIQuery(PrepareSLIQuery(ph, metric, startUnix, endUnix), metric, http)

-----------------------------------------------------------------------------
(* the service: one get-sli request at a time, from gotEvent to the           *)
(* completion event                                                           *)

VARIABLES
  env,                  \* the value of the environment variable "env"
  pc,                   \* where the handler of the current event stands
  event,                \* the event being handled
  ret,                  \* what gotEvent returned for it
  dynatraceConfigFile,  \* retrieveMetrics' dynatraceConfigFile
  dtCredentials,        \* retrieveMetrics' dtCredentials
  dynatraceHandler,     \* retrieveMetrics' dynatraceHandler
  sliResults,           \* retrieveMetrics' sliResults
  raised,               \* the errors the calls of retrieveMetrics before its loop returned
  doneEvent,            \* the events built by sendInternalGetSLIDoneEvent
  calls,                \* the calls made to the config store, the secret store and the vendor
  args,                 \* the arguments of a function applied on its own
  out                   \* its result, <<>> before the call

vars == <<env, pc, event, ret, dynatraceConfigFile, dtCredentials, dynatraceHandler,
          sliResults, raised, doneEvent, calls, args, out>>

RunLocal == env = "runlocal"
RunLocalTest == env = "runlocaltest"

\* keptnevents.InternalGetSLIEventType
InternalGetSLIEventType == "sh.keptn.internal.event.get-sli"

Pending == "<pending>"
Panicked == "<panic>"

\* the sequences over S of length at most n
SeqsUpTo(S, n) == UNION {[1..k -> S] : k \in 0..n}

\* the longest indicator list of a request
MaxIndicators == 2

\* the indicator names requests ask for
RequestIndicators == {Throughput, "usql_sli", "bogus"}

NoEvent == [Type |-> "", decodes |-> FALSE, SLIProvider |-> "", Indicators |-> <<>>]

\* the events the receiver hands to gotEvent; project, stage, service and the
\* window of a get-sli event are those of RequestContext
Events ==
  {[Type |-> "sh.keptn.events.deployment-finished", decodes |-> TRUE,
    SLIProvider |-> "", Indicators |-> <<>>],
   [Type |-> InternalGetSLIEventType, decodes |-> FALSE,
    SLIProvider |-> "", Indicators |-> <<>>]}
  \cup [Type : {InternalGetSLIEventType}, decodes : {TRUE},
        SLIProvider : {"dynatrace", "prometheus"},
        Indicators : SeqsUpTo(RequestIndicators, MaxIndicators)]

RequestContext ==
  [Project |-> "sockshop", Stage |-> "dev", Service |-> "carts",
   TestStrategy |-> "performance", Start |-> 1000, End |-> 2000,
   shkeptncontext |-> "ctx-1"]

\* the keptnEvent retrieveMetrics fills in
KeptnEvent ==
  [Context |-> RequestContext.shkeptncontext, Source |-> "", Event |-> "",
   Project |-> RequestContext.Project, Stage |-> RequestContext.Stage,
   Service |-> RequestContext.Service, Deployment |-> "",
   TestStrategy |-> RequestContext.TestStrategy, Labels |-> <<>>]

NilHandler ==
  [ApiURL |-> "", KeptnEvent |-> KeptnEvent, Headers |-> <<>>,
   CustomQueries |-> <<>>, CustomFilters |-> <<>>]

\* what the config store may answer for dynatrace.conf.yaml at one scope
ResourceAnswers ==
  {[err |-> "resource not found", isNil |-> TRUE, ResourceContent |-> ""],
   [err |-> NoErr, isNil |-> TRUE, ResourceContent |-> ""],
   [err |-> NoErr, isNil |-> FALSE, ResourceContent |-> ""],
   [err |-> NoErr, isNil |-> FALSE, ResourceContent |-> "spec_version: 0.1.0\ndtCreds: my-secret"],
   [err |-> NoErr, isNil |-> FALSE, ResourceContent |-> "spec_version: 0.1.0"],
   [err |-> NoErr, isNil |-> FALSE, ResourceContent |-> "{{not yaml"]}

\* what reading dynatrace/_dynatrace.conf.yaml may give in local mode
LocalFiles ==
  {[err |-> "open: no such file or directory", content |-> ""],
   [err |-> NoErr, content |-> ""],
   [err |-> NoErr, content |-> "spec_version: 0.1.0\ndtCreds: my-secret"]}

SecretData(tenant, api, paas) ==
  [DT_TENANT |-> tenant, DT_API_TOKEN |-> api, DT_PAAS_TOKEN |-> paas]

\* what the secret store may answer for one secret
SecretAnswers ==
  {[kubeErr |-> NoErr, getErr |-> "secrets not found", Data |-> SecretData("", "", "")],
   [kubeErr |-> "unable to load in-cluster configuration", getErr |-> NoErr,
    Data |-> SecretData("", "", "")]}
  \cup {[kubeErr |-> NoErr, getErr |-> NoErr, Data |-> d] :
          d \in {SecretData("", "token", "paas"),
                 SecretData("dt.local", "", "paas"),
                 SecretData("dt.local", "token", ""),
                 SecretData("dt.local", "token", "paas"),
                 SecretData("http://dt.local", "token", "paas"),
                 SecretData("https://dt.local", "token", "paas")}}

\* the DT_* variables of the process environment
Environs ==
  {SecretData("", "", ""), SecretData("dt.local", "token", ""),
   SecretData("https://dt.local", "token", "paas")}

\* the custom SLI queries the config store may hold (dynatrace/sli.yaml)
CustomQueryMaps ==
  {<<>>,
   ("usql_sli" :> "USQL;TABLE;Firefox;SELECT useragent,AVG(duration) FROM usersession"),
   ("usql_sli" :> "builtin:service.response.time:merge(0):percentile(95)?scope=tag(foo)")
     @@ (Throughput :> "MV2;MicroSecond;metricSelector=builtin:service.response.time:merge(0):avg:names&entitySelector=type(SERVICE)")}

DataEntry(n) == [dimensions |-> <<>>, values |-> <<Float(n, 1)>>]

\* the results of a metrics answer
MetricResults ==
  LET ids   == {"builtin:service.requestCount.total:merge(0):sum",
                "builtin:service.response.time:merge(0):avg:names"}
      datas == {<<>>, <<DataEntry(42)>>, <<DataEntry(42), DataEntry(7)>>}
      one   == [metricId : ids, data : datas]
  IN  {<<>>} \cup {<<r>> : r \in one}
        \cup {<<[metricId |-> "builtin:other", data |-> <<DataEntry(7)>>], r>> :
                r \in {x \in one : Len(x.data) = 1}}

\* the rows of a USQL answer
UsqlValues ==
  {<<>>,
   << <<[str |-> "Chrome"], [num |-> Float(1, 1)]>> >>,
   << <<[str |-> "Chrome"], [num |-> Float(1, 1)]>>,
      <<[str |-> "Firefox"], [num |-> Float(5, 2)]>> >>}

\* what the vendor may answer to one call
VendorAnswers ==
  {[err |-> "dial tcp: connection refused", status |-> 0, body |-> [valid |-> FALSE]],
   [err |-> NoErr, status |-> 503,
    body |-> [valid |-> TRUE, error |-> [code |-> 503, message |-> "Service Unavailable"]]],
   [err |-> NoErr, status |-> 200, body |-> [valid |-> FALSE]]}
  \cup {[err |-> NoErr, status |-> 200, body |-> [valid |-> TRUE, result |-> r]] :
          r \in MetricResults}
  \cup {[err |-> NoErr, status |-> 200, body |-> [valid |-> TRUE, values |-> v]] :
          v \in UsqlValues}

\* the answers of the config store and of the secret store a request meets
RequestResources ==
  {r \in ResourceAnswers :
     r.err # NoErr \/ Contains(r.ResourceContent, "dtCreds") \/ Contains(r.ResourceContent, "{{")}
RequestSecrets ==
  LET absent  == CHOOSE a \in SecretAnswers : a.getErr # NoErr
      present == CHOOSE a \in SecretAnswers : a.Data = SecretData("dt.local", "token", "paas")
  IN  {[i \in 1..4 |-> absent], [i \in 1..4 |-> present],
       [i \in 1..4 |-> IF i = 4 THEN present ELSE absent]}
RequestEnvirons == {e \in Environs : e.DT_TENANT # ""}

\* NewDynatraceHandler(dtCredentials.Tenant, keptnEvent, headers, customFilters)
\* followed by the assignment of CustomQueries (lines 145-155)
NewDynatraceHandler(apiURL, keptnEvent, headers, customFilters, customQueries) ==
  [ApiURL |-> apiURL, KeptnEvent |-> keptnEvent, Headers |-> headers,
   CustomQueries |-> customQueries, CustomFilters |-> customFilters]

RequestHandler(creds, customQueries) ==
  NewDynatraceHandler(creds.Tenant, KeptnEvent,
                      ("Authorization" :> ("Api-Token " \o creds.ApiToken)),
                      <<>>, customQueries)

\* the handlers requests are served with
RequestHandlers ==
  {RequestHandler([Tenant |-> t, ApiToken |-> "token"], q) :
     t \in {"https://dt.local", "http://dt.local"}, q \in CustomQueryMaps}

\* the prepared queries of the handlers and indicators of requests
PreparedSLIQueries ==
  [ph \in RequestHandlers, m \in RequestIndicators |->
     PrepareSLIQuery(ph, m, RequestContext.Start, RequestContext.End)]

\* GetSLIValue for the window of the request
RequestSLIValue(ph, metric, http) ==
  EvaluateSLIQuery(IF ph \in RequestHandlers THEN PreparedSLIQueries[ph, metric]
                   ELSE PrepareSLIQuery(ph, metric, RequestContext.Start, RequestContext.End),
                   metric, http)

\* the values of the environment variable "env"
Envs == {"", "runlocal", "runlocaltest"}

\* no event is being handled
Idle ==
  /\ pc = "idle"
  /\ event = NoEvent
  /\ ret = Pending
  /\ dynatraceConfigFile = NilConfigFile
  /\ dtCredentials = NilCredentials
  /\ dynatraceHandler = NilHandler
  /\ sliResults = <<>>
  /\ raised = <<>>
  /\ doneEvent = <<>>
  /\ calls = <<>>

Init ==
  /\ env \in Envs
  /\ Idle
  /\ args = <<>>
  /\ out = <<>>

\* the handler returns r
Return(r) == ret' = r /\ pc' = "done"

\* a call of retrieveMetrics before its loop returned the error e
Raised(step, e) == Append(raised, [step |-> step, err |-> e])

\* Raise without the return: the error is noted and the handler carries on
RaiseAndCarryOn(step, e) == raised' = Raised(step, e) /\ UNCHANGED <<ret, pc>>

\* ... and retrieveMetrics returns it
Raise(step, e) == raised' = Raised(step, e) /\ Return(e)

\* gotEvent without the check of the provider
gotEventOfAnyProvider ==
  /\ pc = "idle"
  /\ \E e \in Events, kubeErr \in BOOLEAN :
       /\ event' = e
       /\ IF e.Type # InternalGetSLIEventType
          THEN Return("received unknown event type") /\ UNCHANGED raised
          ELSE IF ~e.decodes
          THEN Raise("event", "json: cannot unmarshal event data")
          ELSE IF kubeErr /\ ~(RunLocal \/ RunLocalTest)
          THEN Raise("kube", "could not create Kubernetes client")
          ELSE ret' = Pending /\ pc' = "config" /\ UNCHANGED raised
  /\ UNCHANGED <<env, dynatraceConfigFile, dtCredentials, dynatraceHandler,
                 sliResults, doneEvent, calls, args, out>>

\* gotEvent and retrieveMetrics up to the Kubernetes client (lines 77-109)
gotEvent ==
  /\ pc = "idle"
  /\ \E e \in Events, kubeErr \in BOOLEAN :
       /\ event' = e
       /\ IF e.Type # InternalGetSLIEventType
          THEN Return("received unknown event type") /\ UNCHANGED raised
          ELSE IF ~e.decodes
          THEN Raise("event", "json: cannot unmarshal event data")
          ELSE IF e.SLIProvider # "dynatrace"
          THEN Return(NoErr) /\ UNCHANGED raised
          ELSE IF kubeErr /\ ~(RunLocal \/ RunLocalTest)
          THEN Raise("kube", "could not create Kubernetes client")
          ELSE ret' = Pending /\ pc' = "config" /\ UNCHANGED raised
  /\ UNCHANGED <<env, dynatraceConfigFile, dtCredentials, dynatraceHandler,
                 sliResults, doneEvent, calls, args, out>>

\* retrieveMetrics, lines 111-126: the error of GetDynatraceConfig is dropped
LoadConfig ==
  /\ pc = "config"
  /\ \E localFile \in LocalFiles, service \in RequestResources,
        stage \in RequestResources, project \in RequestResources :
       LET r == getDynatraceConfig(RunLocal, localFile, service, stage, project)
       IN  /\ dynatraceConfigFile' = r.file
           /\ calls' = calls \o [i \in 1..Len(r.consulted) |->
                                   [api |-> "config", arg |-> r.consulted[i]]]
           /\ raised' = IF r.err # NoErr THEN Raised("config", r.err) ELSE raised
  /\ pc' = "credentials"
  /\ UNCHANGED <<env, event, ret, dtCredentials, dynatraceHandler, sliResults,
                 doneEvent, args, out>>

\* retrieveMetrics, lines 122-133
ResolveCredentials ==
  /\ pc = "credentials"
  /\ \E environ \in RequestEnvirons, lookups \in RequestSecrets :
       LET dtCreds == IF dynatraceConfigFile.isNil THEN "" ELSE dynatraceConfigFile.DtCreds
           r == getDynatraceCredentials(dtCreds, RequestContext.Project,
                                        RunLocal \/ RunLocalTest, environ, lookups)
       IN  /\ calls' = calls \o [i \in 1..Len(r.tried) |->
                                   [api |-> "secret", arg |-> r.tried[i]]]
           /\ dtCredentials' = r.creds
           /\ IF r.err # NoErr THEN Raise("credentials", r.err)
              ELSE pc' = "queries" /\ UNCHANGED <<ret, raised>>
  /\ UNCHANGED <<env, event, dynatraceConfigFile, dynatraceHandler, sliResults,
                 doneEvent, args, out>>

\* what the store of sli.yaml may answer: the config store, in local mode the
\* local file dynatrace/sli.yaml
SLIConfigurations ==
  [err : {NoErr}, queries : CustomQueryMaps]
    \cup [err : {"resource dynatrace/sli.yaml not found"}, queries : {<<>>}]

\* getCustomQueries(project, stage, service): [queries, err, asked], asked
\* telling whether the config store was asked; a nil map is the empty map
getCustomQueries(local, answer) ==
  IF local
  THEN [queries |-> IF answer.err # NoErr THEN <<>> ELSE answer.queries,
        err |-> NoErr, asked |-> FALSE]
  ELSE IF answer.err # NoErr
  THEN [queries |-> <<>>, err |-> answer.err, asked |-> TRUE]
  ELSE [queries |-> answer.queries, err |-> NoErr, asked |-> TRUE]

\* retrieveMetrics, lines 137-164: the custom queries and the handler
LoadCustomQueries ==
  /\ pc = "queries"
  /\ \E answer \in SLIConfigurations :
       LET r == getCustomQueries(RunLocal \/ RunLocalTest, answer)
       IN  /\ calls' = IF r.asked
                       THEN Append(calls, [api |-> "config", arg |-> "dynatrace/sli.yaml"])
                       ELSE calls
           /\ IF r.err # NoErr
              THEN Raise("queries", r.err) /\ UNCHANGED dynatraceHandler
              ELSE /\ dynatraceHandler' = RequestHandler(dtCredentials, r.queries)
                   /\ pc' = "loop"
                   /\ UNCHANGED <<ret, raised>>
  /\ UNCHANGED <<env, event, dynatraceConfigFile, dtCredentials, sliResults,
                 doneEvent, args, out>>

\* NewSLIResult without the name of the indicator
NewSLIResultUnnamed(indicator, r) ==
  IF r.err # NoErr
  THEN [Metric |-> "", Value |-> Zero, Success |-> FALSE, Message |-> r.err]
  ELSE [Metric |-> "", Value |-> r.value, Success |-> TRUE, Message |-> ""]

\* the SLIResult the loop records for an indicator (lines 173-189), r being
\* what GetSLIValue returned
NewSLIResult(indicator, r) ==
  IF r.err # NoErr
  THEN [Metric |-> indicator, Value |-> Zero, Success |-> FALSE, Message |-> r.err]
  ELSE [Metric |-> indicator, Value |-> r.value, Success |-> TRUE, Message |-> ""]

\* the body of the loop after GetSLIValue returned r (lines 173-189); a panic
\* of GetSLIValue ends the handler
RecordSLIValue(indicator, r) ==
  /\ calls' = calls \o r.calls
  /\ dynatraceHandler' = [dynatraceHandler EXCEPT !.CustomFilters = r.CustomFilters]
  /\ IF r.panic
     THEN Return(Panicked) /\ UNCHANGED sliResults
     ELSE /\ sliResults' = Append(sliResults, NewSLIResult(indicator, r))
          /\ UNCHANGED <<ret, pc>>

\* QueryIndicator with a handler made anew from the environment's defaults
QueryIndicatorAnew(indicator, http) ==
  RecordSLIValue(indicator,
                 RequestSLIValue(RequestHandler([Tenant |-> "https://localhost",
                                                 ApiToken |-> dtCredentials.ApiToken],
                                                <<>>),
                                 indicator, http))

\* line 172 for the indicator, the vendor answering http
QueryIndicator(indicator, http) ==
  RecordSLIValue(indicator, RequestSLIValue(dynatraceHandler, indicator, http))

\* one iteration of the loop over eventData.Indicators (lines 170-190)
FetchIndicator ==
  /\ pc = "loop"
  /\ Len(sliResults) < Len(event.Indicators)
  /\ \E http \in VendorAnswers :
       QueryIndicator(event.Indicators[Len(sliResults) + 1], http)
  /\ UNCHANGED <<env, event, dynatraceConfigFile, dtCredentials, raised, doneEvent,
                 args, out>>

\* the end of retrieveMetrics (lines 192-204) with sendInternalGetSLIDoneEvent
\* and sendEvent; sendErr is what sendEvent returns, doneEvent the events
\* sendInternalGetSLIDoneEvent built
SendDoneEvent ==
  /\ pc = "loop"
  /\ Len(sliResults) = Len(event.Indicators)
  /\ IF RunLocal \/ RunLocalTest
     THEN Return(NoErr) /\ UNCHANGED doneEvent
     ELSE \E sendErr \in {NoErr, "Host of eventbroker not set",
                          "Failed to send cloudevent:, connection refused"} :
            /\ doneEvent' = Append(doneEvent,
                 [Type |-> "sh.keptn.internal.event.get-sli.done",
                  Project |-> RequestContext.Project, Service |-> RequestContext.Service,
                  Stage |-> RequestContext.Stage, IndicatorValues |-> sliResults,
                  Start |-> RequestContext.Start, End |-> RequestContext.End,
                  shkeptncontext |-> RequestContext.shkeptncontext])
            /\ Return(sendErr)
  /\ UNCHANGED <<env, event, dynatraceConfigFile, dtCredentials, dynatraceHandler,
                 sliResults, raised, calls, args, out>>

\* the receiver waits for the next event
NextEvent ==
  /\ pc = "done"
  /\ pc' = "idle"
  /\ event' = NoEvent
  /\ ret' = Pending
  /\ dynatraceConfigFile' = NilConfigFile
  /\ dtCredentials' = NilCredentials
  /\ dynatraceHandler' = NilHandler
  /\ sliResults' = <<>>
  /\ raised' = <<>>
  /\ doneEvent' = <<>>
  /\ calls' = <<>>
  /\ UNCHANGED <<env, args, out>>

Next ==
  \/ gotEvent
  \/ LoadConfig
  \/ ResolveCredentials
  \/ LoadCustomQueries
  \/ FetchIndicator
  \/ SendDoneEvent
  \/ NextEvent

Spec == Init /\ [][Next]_vars

-----------------------------------------------------------------------------
(* the request flow: C1 to C4 *)

Local == RunLocal \/ RunLocalTest

\* the handler of a get-sli request for dynatrace reached its loop
LoopEntered == pc \in {"loop", "done"} /\ dynatraceHandler # NilHandler

\* the vendor calls among the calls made
VendorCalls == SelectSeq(calls, LAMBDA c : c.api \in {"metrics", "usql"})

\* the lookups of secrets among the calls made
SecretLookups == SelectSeq(calls, LAMBDA c : c.api = "secret")

\* C1: when a get-sli request for dynatrace with N indicators gets through
\* its credential and custom-query resolution, the result list handed to the
\* completion event holds exactly N SLIResults, the i-th carrying the name of
\* the i-th requested indicator, whatever succeeded or failed per indicator.
C1_OneResultPerIndicator ==
  \A k \in 1..Len(doneEvent) :
    LET values == doneEvent[k].IndicatorValues
    IN  /\ Len(values) = Len(event.Indicators)
        /\ \A i \in 1..Len(values) : values[i].Metric = event.Indicators[i]

\* a completion event with a failed result followed by a successful one
C1_Witness ==
  /\ Len(doneEvent) = 1
  /\ Len(doneEvent[1].IndicatorValues) >= 2
  /\ ~doneEvent[1].IndicatorValues[1].Success
  /\ doneEvent[1].IndicatorValues[2].Success
  /\ event.Indicators[1] # event.Indicators[2]

\* C2 (as stated): once the loop over the indicators is entered the request
\* is never aborted: when the handler is done every indicator has its
\* SLIResult, a failed one with value 0 and the error as message, and outside
\* local mode the completion event was built with all the results.
C2_FailureNeverAborts ==
  (pc = "done" /\ LoopEntered) =>
     /\ Len(sliResults) = Len(event.Indicators)
     /\ \A i \in 1..Len(sliResults) :
          ~sliResults[i].Success =>
             sliResults[i].Value = Zero /\ sliResults[i].Message # ""
     /\ ~Local => Len(doneEvent) = 1 /\ doneEvent[1].IndicatorValues = sliResults

\* C3 (as stated): an error raised before the loop, by the loading of the
\* service config, of the credentials or of the custom queries, aborts the
\* request: retrieveMetrics returned it, no vendor call was made and no
\* completion event built.
C3_AnyEarlyErrorAborts ==
  \A k \in 1..Len(raised) :
    /\ pc = "done" /\ ret = raised[k].err
    /\ VendorCalls = <<>> /\ doneEvent = <<>>

\* C3 (amended): an error of the credential resolution or of the loading of
\* the custom queries (or of the decoding of the event, or of the Kubernetes
\* client outside local mode) aborts the request: retrieveMetrics returned
\* it, no vendor call was made and no completion event built.  An error of
\* the loading of dynatrace.conf.yaml is dropped and aborts nothing: the
\* request goes on as without that file.
C3_EarlyErrorAborts ==
  /\ \A k \in 1..Len(raised) :
       raised[k].step # "config" =>
          /\ pc = "done" /\ ret = raised[k].err
          /\ VendorCalls = <<>> /\ doneEvent = <<>>
  /\ \A k \in 1..Len(raised) :
       (raised[k].step = "config" /\ pc # "done") =>
          ret = Pending /\ dynatraceConfigFile = NilConfigFile

\* the custom queries failed to load after the credentials were found
C3_Witness ==
  /\ pc = "done"
  /\ \E k \in 1..Len(raised) : raised[k].step = "queries"
  /\ SecretLookups # <<>>

\* C4 (as stated): an event of another type than get-sli, or for another
\* provider than dynatrace, is acknowledged without action: the handler
\* returned no error, looked up no credentials, called no vendor and built no
\* completion event.
C4_OtherEventsAcknowledged ==
  (pc = "done" /\ (event.Type # InternalGetSLIEventType
                   \/ (event.decodes /\ event.SLIProvider # "dynatrace"))) =>
     ret = NoErr /\ calls = <<>> /\ doneEvent = <<>>

\* C4 (amended): for an event of another type than get-sli the handler
\* returns the error "received unknown event type"; for a get-sli event for
\* another provider than dynatrace it returns no error; in both cases it
\* looked up nothing, called no vendor and built no completion event.
C4_OtherEventsIgnored ==
  /\ (pc = "done" /\ event.Type # InternalGetSLIEventType) =>
        ret = "received unknown event type" /\ calls = <<>> /\ doneEvent = <<>>
  /\ (pc = "done" /\ event.Type = InternalGetSLIEventType
        /\ event.decodes /\ event.SLIProvider # "dynatrace") =>
        ret = NoErr /\ calls = <<>> /\ doneEvent = <<>>

\* a get-sli event for another provider, with indicators, was handled
C4_Witness ==
  /\ pc = "done"
  /\ event.Type = InternalGetSLIEventType
  /\ event.decodes
  /\ event.SLIProvider = "prometheus"
  /\ event.Indicators # <<>>

\* the vendor call GetSLIValue makes for the indicator with the handler, none
\* when it ends before the call
VendorCallFor(ph, indicator) ==
  RequestSLIValue(ph, indicator, CHOOSE http \in VendorAnswers : http.err # NoErr).calls

\* C22: within one request the credentials and the custom queries are each
\* resolved once and before the first vendor call, and every indicator is
\* queried with that tenant URL, token and query map: the credentials change
\* only where they are resolved, the handler's URL, headers and custom queries
\* only where the handler is made, the config store and the secret store are
\* asked only while no vendor call was made, and a vendor call is the one
\* GetSLIValue makes for the next indicator with the handler of the
\* credentials resolved
C22_ResolvedOnceBeforeVendorCalls ==
  [][/\ dtCredentials' # dtCredentials => pc \in {"credentials", "done"}
     /\ (\/ dynatraceHandler'.ApiURL # dynatraceHandler.ApiURL
         \/ dynatraceHandler'.Headers # dynatraceHandler.Headers
         \/ dynatraceHandler'.CustomQueries # dynatraceHandler.CustomQueries)
          => pc \in {"queries", "done"}
     /\ (Len(calls') > Len(calls) /\ pc # "loop")
          => VendorCalls' = <<>>
     /\ (Len(calls') > Len(calls) /\ pc = "loop")
          => /\ dynatraceHandler.ApiURL = dtCredentials.Tenant
             /\ dynatraceHandler.Headers
                  = ("Authorization" :> ("Api-Token " \o dtCredentials.ApiToken))
             /\ calls' = calls \o VendorCallFor(dynatraceHandler,
                                                 event.Indicators[Len(sliResults) + 1])
             /\ \A i \in (Len(calls) + 1)..Len(calls') :
                  HasPrefix(calls'[i].arg, dtCredentials.Tenant \o "/api/")
     /\ pc = "loop" => Len(calls') <= Len(calls) + 1]_vars

\* two indicators were queried at the vendor, one with a custom query, after
\* the secret store and the config store were asked
C22_Witness ==
  /\ pc = "loop"
  /\ Len(sliResults) = 2
  /\ Len(VendorCalls) = 2
  /\ calls[Len(calls)].arg # calls[Len(calls) - 1].arg
  /\ dynatraceHandler.CustomQueries # <<>>
  /\ \E i \in 1..Len(calls) : calls[i].api = "secret"
  /\ \E i \in 1..Len(calls) : calls[i].arg = "dynatrace/sli.yaml"

-----------------------------------------------------------------------------
(* the credential resolution on its own: C5 and C6 *)

request == <<pc, event, ret, dynatraceConfigFile, dtCredentials, dynatraceHandler,
             sliResults, raised, doneEvent, calls>>

\* the tenants a secret or the environment may hold
Tenants == {"", "dt.local", "http://dt.local", "https://dt.local", "HTTPS://dt.local",
            "httpx://dt.local"}

\* the calls of GetDTCredentials
DTCredentialsCalls ==
  [fn : {"GetDTCredentials"},
   dynatraceSecretName : {"", "dynatrace"},
   environ : {SecretData(t, "token", p) : t \in Tenants, p \in {"", "paas"}},
   lookup : SecretAnswers \cup {[kubeErr |-> NoErr, getErr |-> NoErr,
                                 Data |-> SecretData(t, "token", "paas")] : t \in Tenants}]

\* the calls of getDynatraceCredentials
DynatraceCredentialsCalls ==
  [fn : {"getDynatraceCredentials"},
   secretName : {"", "my-secret"},
   project : {"sockshop"},
   environ : {SecretData("dt.local", "token", "")},
   lookups : [1..4 -> SecretAnswers]]

InitCreds ==
  /\ env \in Envs
  /\ Idle
  /\ args \in DTCredentialsCalls \cup DynatraceCredentialsCalls
  /\ out = <<>>

CallGetDTCredentials ==
  /\ out = <<>>
  /\ args.fn = "GetDTCredentials"
  /\ out' = <<GetDTCredentials(args.dynatraceSecretName, RunLocal \/ RunLocalTest,
                               args.environ, args.lookup)>>
  /\ UNCHANGED <<env, args, request>>

CallGetDynatraceCredentials ==
  /\ out = <<>>
  /\ args.fn = "getDynatraceCredentials"
  /\ out' = <<getDynatraceCredentials(args.secretName, args.project,
                                      RunLocal \/ RunLocalTest, args.environ, args.lookups)>>
  /\ UNCHANGED <<env, args, request>>

NextCreds == CallGetDTCredentials \/ CallGetDynatraceCredentials

SpecCreds == InitCreds /\ [][NextCreds]_vars

Returned(fn) == out # <<>> /\ args.fn = fn

\* the i-th secret the store was asked for exists and is complete
CompleteSecret(lookup) ==
  /\ lookup.kubeErr = NoErr /\ lookup.getErr = NoErr
  /\ lookup.Data.DT_TENANT # "" /\ lookup.Data.DT_API_TOKEN # ""
  /\ lookup.Data.DT_PAAS_TOKEN # ""

C6_TenantHasScheme ==
  (Returned("GetDTCredentials") /\ ~out[1].creds.isNil) =>
     LET given == IF Local THEN args.environ.DT_TENANT ELSE args.lookup.Data.DT_TENANT
         prefixed(t) == HasPrefix(t, "http://") \/ HasPrefix(t, "https://")
         tenant == out[1].creds.Tenant
     IN  /\ prefixed(tenant)
         /\ prefixed(given) => tenant = given
         /\ ~prefixed(given) => tenant = "https://" \o given
         /\ NormaliseTenant(tenant) = tenant

\* a secret whose tenant has the http:// prefix was returned
C6_Witness ==
  /\ Returned("GetDTCredentials") /\ ~Local
  /\ ~out[1].creds.isNil
  /\ args.lookup.Data.DT_TENANT = "http://dt.local"
  /\ out[1].creds.Tenant = "http://dt.local"

(***************************************************************************)
(* getDynatraceConfig on its own: one call for every local file and every *)
(* answer of the config store at the three scopes.                         *)
(***************************************************************************)
DynatraceConfigCalls ==
  [fn : {"getDynatraceConfig"},
   localFile : LocalFiles,
   service : ResourceAnswers,
   stage : ResourceAnswers,
   project : ResourceAnswers]

InitConfig ==
  /\ env \in Envs
  /\ Idle
  /\ args \in DynatraceConfigCalls
  /\ out = <<>>

CallGetDynatraceConfig ==
  /\ out = <<>>
  /\ args.fn = "getDynatraceConfig"
  /\ out' = <<getDynatraceConfig(RunLocal, args.localFile, args.service, args.stage,
                                 args.project)>>
  /\ UNCHANGED <<env, args, request>>

NextConfig == CallGetDynatraceConfig

SpecConfig == InitConfig /\ [][NextConfig]_vars

\* the lookup at a scope succeeded with non-empty content
Usable(r) == r.err = NoErr /\ ~r.isNil /\ r.ResourceContent # ""

\* C7: when the loader does not read the local file, it asks the config store
\* for dynatrace.conf.yaml at service, stage, project scope in that order and
\* stops at the first scope whose lookup succeeded with non-empty content: what
\* it returns is that resource parsed, a scope is asked only when every
\* narrower one errored, was absent or was empty, and when no scope has the
\* resource it returns no configuration with the project lookup's error.
C7_NarrowestScopeFirst ==
  (Returned("getDynatraceConfig") /\ ~RunLocal) =>
     LET scopes == <<"service", "stage", "project">>
         answers == <<args.service, args.stage, args.project>>
         usable == {i \in 1..3 : Usable(answers[i])}
         first == IF usable = {} THEN 3
                  ELSE CHOOSE i \in usable : \A j \in usable : i <= j
         r == out[1]
     IN  /\ r.consulted = SubSeq(scopes, 1, first)
         /\ \A i \in 1..Len(r.consulted) - 1 : ~Usable(answers[i])
         /\ IF usable = {}
            THEN r.file.isNil /\ r.err = args.project.err
            ELSE LET p == parseDynatraceConfigFile(answers[first].ResourceContent)
                 IN  /\ r.file = p.file
                     /\ (r.err = NoErr) = (p.err = NoErr)

\* the service scope is empty, the stage scope holds the file: the stage
\* scope's file is returned and the project scope is not asked
C7_Witness ==
  /\ Returned("getDynatraceConfig") /\ ~RunLocal
  /\ args.service.err = NoErr /\ ~args.service.isNil /\ args.service.ResourceContent = ""
  /\ Usable(args.stage) /\ Usable(args.project)
  /\ args.stage.ResourceContent # args.project.ResourceContent
  /\ out[1].consulted = <<"service", "stage">>
  /\ out[1].file.DtCreds = "my-secret"

(***************************************************************************)
(* GetSLIValue on its own: one call for every custom query map, indicator *)
(* name and vendor answer.  out holds what getTimeseriesConfig resolved    *)
(* and what GetSLIValue returned.                                          *)
(***************************************************************************)
\* the calls of GetSLIValue: the custom queries of requests and one map that
\* has a query for each built-in name
SLIValueCalls ==
  LET builtIn == {Throughput, ErrorRate, ResponseTimeP50, ResponseTimeP90, ResponseTimeP95}
  IN  [fn : {"GetSLIValue"},
       CustomQueries : CustomQueryMaps
                         \cup {[m \in builtIn |-> "metricSelector=custom:" \o m]},
       metric : builtIn \cup {"usql_sli", "bogus"},
       http : VendorAnswers]

InitSLI ==
  /\ env \in Envs
  /\ Idle
  /\ args \in SLIValueCalls
  /\ out = <<>>

CallGetSLIValue ==
  /\ out = <<>>
  /\ args.fn = "GetSLIValue"
  /\ LET ph == RequestHandler([Tenant |-> "https://dt.local", ApiToken |-> "token",
                               PaaSToken |-> "paas"], args.CustomQueries)
     IN  out' = <<[config |-> getTimeseriesConfig(ph, args.metric),
                   value |-> GetSLIValue(ph, args.metric, RequestContext.Start,
                                         RequestContext.End, args.http)]>>
  /\ UNCHANGED <<env, args, request>>

NextSLI == CallGetSLIValue

SpecSLI == InitSLI /\ [][NextSLI]_vars

\* C8: an indicator name that is a key of the custom query map resolves to the
\* custom query, also when it is one of the five built-in names; another name
\* resolves to the fixed default query when it is throughput, error_rate,
\* response_time_p50, response_time_p90 or response_time_p95, and to the
\* unsupported-SLI error otherwise; with that error GetSLIValue returns an
\* error and the value 0 and has called the vendor not once, and without it
\* GetSLIValue does not report it.
C8_CustomThenDefaultThenError ==
  Returned("GetSLIValue") =>
     LET config == out[1].config
         value == out[1].value
         unsupported == "unsupported SLI metric " \o args.metric
     IN  /\ args.metric \in DOMAIN args.CustomQueries =>
              config = [query |-> args.CustomQueries[args.metric], err |-> NoErr]
         /\ (args.metric \notin DOMAIN args.CustomQueries
               /\ args.metric \in {"throughput", "error_rate", "response_time_p50",
                                   "response_time_p90", "response_time_p95"}) =>
              /\ config.err = NoErr
              /\ config.query = DefaultQuery(args.metric)
              /\ HasPrefix(config.query, "metricSelector=builtin:service.")
         /\ (args.metric \notin DOMAIN args.CustomQueries
               /\ args.metric \notin {"throughput", "error_rate", "response_time_p50",
                                      "response_time_p90", "response_time_p95"}) =>
              /\ config = [query |-> "", err |-> unsupported]
              /\ ~value.panic
              /\ value.err # NoErr /\ Contains(value.err, unsupported)
              /\ value.value = Zero
              /\ value.calls = <<>>
         /\ config.err = NoErr => ~Contains(value.err, "unsupported SLI metric")

\* a built-in name the custom query map overrides: the custom query was sent
C8_Witness ==
  /\ Returned("GetSLIValue")
  /\ args.metric = "throughput"
  /\ "throughput" \in DOMAIN args.CustomQueries
  /\ out[1].config.query = "metricSelector=custom:throughput"
  /\ Len(out[1].value.calls) = 1
  /\ Contains(out[1].value.calls[1].arg, "metricSelector=custom%3Athroughput")

\* a name that is neither custom nor built in: the error, and no vendor call
C8_WitnessUnsupported ==
  /\ Returned("GetSLIValue")
  /\ args.metric = "bogus"
  /\ out[1].config.err = "unsupported SLI metric bogus"
  /\ out[1].value.calls = <<>>

(***************************************************************************)
(* package dynatrace: the dashboard loader.  The vendor answers the list   *)
(* of dashboards with [err, status, body], body.dashboards being the list  *)
(* of [id, name], and one dashboard with body.dashboard.                   *)
(***************************************************************************)

\* IsValidUUID(uuid): the regular expression
\* ^[a-fA-F0-9]{8}-[a-fA-F0-9]{4}-4[a-fA-F0-9]{3}-[8|9|aA|bB][a-fA-F0-9]{3}-[a-fA-F0-9]{12}$
\* matches 36 characters place by place
IsValidUUID(uuid) ==
  /\ Len(uuid) = 36
  /\ \A i \in 1..36 :
       LET c == SubSeq(uuid, i, i)
       IN  CASE i \in {9, 14, 19, 24} -> c = "-"
             [] i = 15 -> c = "4"
             [] i = 20 -> Contains("8|9aAbB", c)
             [] OTHER -> Contains("0123456789abcdefABCDEF", c)

\* common.DynatraceConfigDashboardQUERY
DynatraceConfigDashboardQUERY == "query"

\* DashboardMatches without the last of the values
DashboardMatchesButLast(name, findValues) ==
  /\ HasPrefix(ToLower(name), "kqg;")
  /\ LET nameSplits == Split(name, ";")
         lowered == [n \in 1..Len(nameSplits) |-> ToLower(nameSplits[n])]
     IN  \A v \in 1..Len(findValues) - 1 :
           \E n \in 1..Len(lowered) : findValues[v] = lowered[n]

\* the body of the loop of findDynatraceDashboard: whether the dashboard of
\* this name is the one looked for
DashboardMatches(name, findValues) ==
  /\ HasPrefix(ToLower(name), "kqg;")
  /\ LET nameSplits == Split(name, ";")
         lowered == [n \in 1..Len(nameSplits) |-> ToLower(nameSplits[n])]
     IN  \A v \in 1..Len(findValues) :
           \E n \in 1..Len(lowered) : findValues[v] = lowered[n]

\* the loop of findDynatraceDashboard over the dashboards of the list
RECURSIVE FirstMatch(_, _)
FirstMatch(dashboards, findValues) ==
  IF dashboards = <<>> THEN ""
  ELSE IF DashboardMatches(Head(dashboards).name, findValues) THEN Head(dashboards).id
  ELSE FirstMatch(Tail(dashboards), findValues)

\* findDynatraceDashboard(keptnEvent), the vendor answering http: [id, err]
findDynatraceDashboard(ph, keptnEvent, http) ==
  IF http.err # NoErr \/ http.status # 200 THEN [id |-> "", err |-> http.err]
  ELSE IF ~http.body.valid THEN [id |-> "", err |-> "json: cannot unmarshal"]
  ELSE [id |-> FirstMatch(Field(http.body, "dashboards", <<>>),
                          <<ToLower("project=" \o keptnEvent.Project),
                            ToLower("service=" \o keptnEvent.Service),
                            ToLower("stage=" \o keptnEvent.Stage)>>),
        err |-> NoErr]

NilDashboard == [isNil |-> TRUE]

\* loadDynatraceDashboard from its second option on (lines 392-424), made
\* being the vendor calls made so far and http the vendor's answer to the
\* request for the dashboard: [dashboardJSON, dashboard, err, calls]
LoadDashboardByID(ph, dashboard, made, http) ==
  IF dashboard = ""
  THEN [dashboardJSON |-> NilDashboard, dashboard |-> dashboard, err |-> NoErr,
        calls |-> made]
  ELSE IF ~IsValidUUID(dashboard)
  THEN [dashboardJSON |-> NilDashboard, dashboard |-> dashboard,
        err |-> "Dashboard ID " \o dashboard \o " not a valid UUID", calls |-> made]
  ELSE [dashboardJSON |-> IF http.err = NoErr /\ http.status = 200 /\ http.body.valid
                          THEN http.body.dashboard ELSE NilDashboard,
        dashboard |-> dashboard,
        err |-> IF http.err # NoErr THEN http.err
                ELSE IF http.status # 200 THEN "No valid response came back"
                ELSE IF ~http.body.valid
                THEN "could not decode response payload: json: cannot unmarshal"
                ELSE NoErr,
        calls |-> Append(made, [api |-> "dashboard",
                                 arg |-> ph.ApiURL \o "/api/config/v1/dashboards/"
                                           \o dashboard])]

\* loadDynatraceDashboard(keptnEvent, dashboard), the vendor answering list to
\* the request for the dashboards and get to the request for one
loadDynatraceDashboard(ph, keptnEvent, dashboard, list, get) ==
  IF dashboard = DynatraceConfigDashboardQUERY
  THEN LoadDashboardByID(ph, findDynatraceDashboard(ph, keptnEvent, list).id,
                         <<[api |-> "dashboards",
                            arg |-> ph.ApiURL \o "/api/config/v1/dashboards"]>>,
                         get)
  ELSE LoadDashboardByID(ph, dashboard, <<>>, get)

\* a tile within json.MarshalIndent for the fields of a tile modelled here;
\* CustomName and Markdown are marshalled under the names of their fields,
\* their tags being malformed (lines 98-99)
MarshalTile(tile) ==
  "    {\n      \"tileType\": \"" \o tile.TileType
    \o "\",\n      \"query\": \"" \o tile.Query
    \o "\",\n      \"type\": \"" \o tile.Type
    \o "\",\n      \"CustomName\": \"" \o tile.CustomName
    \o "\",\n      \"Markdown\": \"" \o tile.Markdown
    \o "\",\n      \"filterConfig\": {\n        \"customName\": \""
    \o tile.FilterConfig.CustomName
    \o "\",\n        \"chartConfig\": {\n          \"series\": "
    \o (IF tile.FilterConfig.ChartConfig.Series = <<>> THEN "null"
        ELSE "[" \o ConcatAll([i \in 1..Len(tile.FilterConfig.ChartConfig.Series) |->
                                 (IF i = 1 THEN "" ELSE ",")
                                   \o "\n            {\n              \"metric\": \""
                                   \o tile.FilterConfig.ChartConfig.Series[i].Metric
                                   \o "\",\n              \"aggregation\": \""
                                   \o tile.FilterConfig.ChartConfig.Series[i].Aggregation
                                   \o "\"\n            }"])
               \o "\n          ]")
    \o "\n        }\n      }\n    }"

\* the tiles within json.MarshalIndent
MarshalTiles(tiles) ==
  IF tiles = <<>> THEN "null"
  ELSE "[\n" \o ConcatAll([i \in 1..Len(tiles) |->
                             (IF i = 1 THEN "" ELSE ",\n") \o MarshalTile(tiles[i])])
         \o "\n  ]"

\* json.MarshalIndent(dashboardJSON, "", "  ") for the fields of a dashboard
\* modelled here: id, dashboardMetadata.name, dashboardMetadata.dashboardFilter
\* (left out when nil, as its managementZone) and tiles
MarshalIndent(d) ==
  "{\n  \"id\": \"" \o d.ID \o "\",\n  \"dashboardMetadata\": {\n    \"name\": \""
    \o d.DashboardMetadata.Name \o "\""
    \o (IF d.DashboardMetadata.DashboardFilter.isNil THEN ""
        ELSE ",\n    \"dashboardFilter\": {\n      \"timeframe\": \"\""
               \o (IF d.DashboardMetadata.DashboardFilter.ManagementZone.isNil THEN ""
                   ELSE ",\n      \"managementZone\": {\n        \"id\": \""
                          \o d.DashboardMetadata.DashboardFilter.ManagementZone.ID
                          \o "\",\n        \"name\": \"\"\n      }")
               \o "\n    }")
    \o "\n  },\n  \"tiles\": " \o MarshalTiles(d.Tiles) \o "\n}"

\* HasDashboardChanged comparing the contents only
HasDashboardChangedByContent(newDashboardContent, existingDashboardContent) ==
  newDashboardContent # existingDashboardContent

\* HasDashboardChanged(keptnEvent, dashboardJSON, existingDashboardContent),
\* newDashboardContent being the dashboard marshalled
HasDashboardChanged(newDashboardContent, existingDashboardContent) ==
  IF ~Contains(newDashboardContent, "KQG.QueryBehavior=ParseOnChange") THEN TRUE
  ELSE newDashboardContent # existingDashboardContent

\* what QueryDynatraceDashboardForSLIs returns, with the vendor calls it made
\* and the selector it handed to loadDynatraceDashboard
DashboardResult(link, dashboardJSON, dashboardSLI, dashboardSLO, err, loaded, selector) ==
  [link |-> link, dashboardJSON |-> dashboardJSON, dashboardSLI |-> dashboardSLI,
   dashboardSLO |-> dashboardSLO, sliResults |-> <<>>, err |-> err,
   calls |-> loaded.calls, selector |-> selector, panic |-> FALSE]

\* dashboardLinkAsLabel (lines 897-905)
DashboardLink(ph, d, startUnix, endUnix) ==
  ph.ApiURL \o "#dashboard;id=" \o d.ID \o ";gtf=c_" \o TimestampToString(startUnix)
    \o "_" \o TimestampToString(endUnix)
    \o (IF ~d.DashboardMetadata.DashboardFilter.isNil
           /\ ~d.DashboardMetadata.DashboardFilter.ManagementZone.isNil
        THEN ";gf=" \o d.DashboardMetadata.DashboardFilter.ManagementZone.ID
        ELSE "")

\* the value of a string of decimal digits
RECURSIVE DecimalValue(_)
DecimalValue(digits) ==
  IF digits = "" THEN 0
  ELSE 10 * DecimalValue(SubSeq(digits, 1, Len(digits) - 1))
         + (Index("0123456789", SubSeq(digits, Len(digits), Len(digits))) - 1)

\* strconv.Atoi for numbers that fit an int: [n, ok], n being 0 for a string
\* that is no number
Atoi(str) ==
  LET signed == str # "" /\ SubSeq(str, 1, 1) \in {"+", "-"}
      digits == IF signed THEN SubSeq(str, 2, Len(str)) ELSE str
      ok     == /\ digits # ""
                /\ \A i \in 1..Len(digits) : Index("0123456789", SubSeq(digits, i, i)) > 0
  IN  IF ~ok THEN [n |-> 0, ok |-> FALSE]
      ELSE [n |-> IF signed /\ SubSeq(str, 1, 1) = "-" THEN 0 - DecimalValue(digits)
                  ELSE DecimalValue(digits),
            ok |-> TRUE]

\* the name=value pairs of a title in order; a part without "=" has no name
NameValues(customName) ==
  LET nameValueSplits == Split(customName, ";")
  IN  [i \in 1..Len(nameValueSplits) |->
         LET nameValueDividerIndex == Index(nameValueSplits[i], "=")
         IN  IF nameValueDividerIndex = 0 THEN [nameString |-> "", valueString |-> ""]
             ELSE [nameString |-> SubSeq(nameValueSplits[i], 1, nameValueDividerIndex - 1),
                   valueString |-> SubSeq(nameValueSplits[i], nameValueDividerIndex + 1,
                                          Len(nameValueSplits[i]))]]

\* the values given for a name, in order
ValuesNamed(nameValues, name) ==
  LET given == SelectSeq(nameValues, LAMBDA p : p.nameString = name)
  IN  [i \in 1..Len(given) |-> given[i].valueString]

\* ParsePassAndWarningFromString(customName, defaultPass, defaultWarning):
\* [sliName, passCriteria, warnCriteria, weight, keySli]; a name given more
\* than once keeps its last value, pass and warning add one criteria each
\* time; nil criteria are the empty sequence
ParsePassAndWarningFromString(customName, defaultPass, defaultWarning) ==
  LET nameValues == NameValues(customName)
      last(values, default) == IF values = <<>> THEN default ELSE values[Len(values)]
      criteria(values, default) ==
        IF values = <<>>
        THEN IF default = <<>> THEN <<>> ELSE <<[Criteria |-> default]>>
        ELSE [i \in 1..Len(values) |-> [Criteria |-> Split(values[i], ",")]]
      weights == ValuesNamed(nameValues, "weight")
      keys    == ValuesNamed(nameValues, "key")
  IN  [sliName |-> last(ValuesNamed(nameValues, "sli"), ""),
       passCriteria |-> criteria(ValuesNamed(nameValues, "pass"), defaultPass),
       warnCriteria |-> criteria(ValuesNamed(nameValues, "warning"), defaultWarning),
       weight |-> IF weights = <<>> THEN 1 ELSE Atoi(weights[Len(weights)]).n,
       keySli |-> /\ keys # <<>>
                  /\ keys[Len(keys)] \in {"1", "t", "T", "TRUE", "true", "True"}]

\* ParseMarkdownConfiguration(markdown, slo) for one part of the markdown
MarkdownSetting(markdownSplitValue, slo) ==
  LET configValueSplits == Split(markdownSplitValue, "=")
      configName  == ToLower(configValueSplits[1])
      configValue == configValueSplits[2]
      noresults   == Atoi(configValue)
      results     == IF noresults.ok THEN noresults.n ELSE 1
  IN  IF Len(configValueSplits) # 2 THEN slo
      ELSE IF configName = "kqg.total.pass"
      THEN [slo EXCEPT !.TotalScore.Pass = configValue]
      ELSE IF configName = "kqg.total.warning"
      THEN [slo EXCEPT !.TotalScore.Warning = configValue]
      ELSE IF configName = "kqg.compare.withscore"
      THEN [slo EXCEPT !.Comparison.IncludeResultWithScore =
                          IF configValue \in {"pass", "pass_or_warn", "all"}
                          THEN configValue ELSE "pass"]
      ELSE IF configName = "kqg.compare.results"
      THEN [slo EXCEPT !.Comparison.NumberOfComparisonResults = results,
                       !.Comparison.CompareWith =
                          IF results > 1 THEN "several_results" ELSE "single_result"]
      ELSE IF configName = "kqg.compare.function"
      THEN [slo EXCEPT !.Comparison.AggregateFunction =
                          IF configValue \in {"avg", "p50", "p90", "p95"}
                          THEN configValue ELSE "avg"]
      ELSE slo

\* ParseMarkdownConfiguration(markdown, slo), from part i of the markdown on
RECURSIVE ParseMarkdownSplits(_, _, _)
ParseMarkdownSplits(markdownSplits, i, slo) ==
  IF i > Len(markdownSplits) THEN slo
  ELSE ParseMarkdownSplits(markdownSplits, i + 1, MarkdownSetting(markdownSplits[i], slo))

ParseMarkdownConfiguration(markdown, slo) ==
  ParseMarkdownSplits(Split(markdown, ";"), 1, slo)

\* cleanIndicatorName(indicatorName)
cleanIndicatorName(indicatorName) ==
  ReplaceAll(ReplaceAll(ReplaceAll(indicatorName, " ", "_"), "/", "_"), "%", "_")

\* GetEntitySelectorFromEntityFilter(filtersPerEntityType, entityType); the
\* maps are functions from their keys
GetEntitySelectorFromEntityFilter(filtersPerEntityType, entityType) ==
  LET filters == filtersPerEntityType[entityType]
      each(key, name) ==
        IF key \in DOMAIN filters
        THEN ConcatAll([i \in 1..Len(filters[key]) |->
                          "," \o name \o "(\"" \o filters[key][i] \o "\")"])
        ELSE ""
  IN  IF entityType \in DOMAIN filtersPerEntityType
      THEN each("SPECIFIC_ENTITIES", "entityId") \o each("AUTO_TAGS", "tag")
      ELSE ""

\* fmt.Sprintf("%f", percentile) for the percentile of a series, an
\* interface{} that holds nil or a float64 that is not negative
SprintfF(percentile) ==
  IF percentile.isNil THEN "%!f(<nil>)"
  ELSE LET millionths == (percentile.value.num * 1000000 + percentile.value.den \div 2)
                           \div percentile.value.den
           fraction   == ToString(1000000 + (millionths % 1000000))
       IN  ToString(millionths \div 1000000) \o "." \o SubSeq(fraction, 2, 7)

\* lines 963-1003 with the dimensions of the metric merged from the first
\* to the last
SeriesAggregatorsAscending(series, metricDefinition) ==
  [mergeAggregator |->
     ConcatAll([k \in 1..Len(metricDefinition.DimensionDefinitions) |->
                  IF \E d \in 1..Len(series.Dimensions) :
                       series.Dimensions[d].ID = ToString(k - 1)
                  THEN ""
                  ELSE ":merge(" \o ToString(k - 1) \o ")"]),
   filterAggregator |-> "",
   filterSLIDefinitionAggregator |-> "",
   entitySelectorSLIDefinition |-> ""]

\* lines 963-1003: what the loop over the dimensions of the metric leaves in
\* mergeAggregator, filterAggregator, filterSLIDefinitionAggregator and
\* entitySelectorSLIDefinition. The dimensions of the series are visited for
\* metricDimIx from the last dimension of the metric down to 0; a variable
\* that is assigned keeps what the last visit gave it
SeriesAggregators(series, metricDefinition) ==
  LET metricDimensionCount == Len(metricDefinition.DimensionDefinitions)
      kept(metricDimIx) ==
        SelectSeq(series.Dimensions, LAMBDA seriesDim : seriesDim.ID = ToString(metricDimIx))
      visited == Flatten([k \in 1..metricDimensionCount |-> kept(metricDimensionCount - k)])
      filtered == SelectSeq(visited, LAMBDA seriesDim : Len(seriesDim.Values) > 0)
      entities == SelectSeq(visited, LAMBDA seriesDim :
                              /\ Len(seriesDim.Values) = 0
                              /\ HasPrefix(seriesDim.Name, "dt.entity."))
      others   == SelectSeq(visited, LAMBDA seriesDim :
                              /\ Len(seriesDim.Values) = 0
                              /\ ~HasPrefix(seriesDim.Name, "dt.entity."))
  IN  [mergeAggregator |->
         ConcatAll([k \in 1..metricDimensionCount |->
                      IF kept(metricDimensionCount - k) = <<>>
                      THEN ":merge(" \o ToString(metricDimensionCount - k) \o ")"
                      ELSE ""]),
       filterAggregator |->
         IF filtered = <<>> THEN ""
         ELSE ":filter(eq(" \o filtered[Len(filtered)].Name \o ","
                \o filtered[Len(filtered)].Values[1] \o "))",
       filterSLIDefinitionAggregator |->
         IF others = <<>> THEN ""
         ELSE ":filter(eq(" \o others[Len(others)].Name \o ",FILTERDIMENSIONVALUE))",
       entitySelectorSLIDefinition |->
         IF entities = <<>> THEN "" ELSE ",entityId(FILTERDIMENSIONVALUE)"]

\* lines 1005-1021: the aggregation of the query
MetricAggregation(series, metricDefinition) ==
  LET given == IF series.Aggregation # "NONE" THEN series.Aggregation
               ELSE metricDefinition.DefaultAggregation.Type
  IN  IF given = "PERCENTILE" THEN given \o "(" \o SprintfF(series.Percentile) \o ")"
      ELSE IF given \in {"OF_INTEREST_RATIO", "OTHER_RATIO"} THEN "avg"
      ELSE given

\* lines 1028-1047: metricQuery for the aggregators a
SeriesQuery(tile, series, metricDefinition, dashboardManagementZoneFilter, a) ==
  LET entityType == IF Len(metricDefinition.EntityType) > 0
                    THEN metricDefinition.EntityType[1] ELSE series.EntityType
  IN  "metricSelector=" \o series.Metric \o a.mergeAggregator \o a.filterAggregator
        \o ":" \o ToLower(MetricAggregation(series, metricDefinition))
        \o ":names&entitySelector=type(" \o entityType \o ")"
        \o GetEntitySelectorFromEntityFilter(tile.FilterConfig.FiltersPerEntityType, entityType)
        \o (IF tile.TileFilter.ManagementZone.isNil THEN dashboardManagementZoneFilter
            ELSE ",mzId(" \o tile.TileFilter.ManagementZone.ID \o ")")

\* What a tile, a series, a result or a row adds in the loop of
\* QueryDynatraceDashboardForSLIs: the SLIResults appended, the assignments
\* [name, query] to dashboardSLI.Indicators and the objectives appended to
\* dashboardSLO, in order, with the vendor calls made; panic when the loop
\* ends in a panic
Added(results, indicators, objectives, made, panic) ==
  [sliResults |-> results, indicators |-> indicators, objectives |-> objectives,
   calls |-> made, panic |-> panic]

\* what a sequence of steps adds, one after the other
AddedBy(steps) ==
  Added(Flatten([i \in 1..Len(steps) |-> steps[i].sliResults]),
        Flatten([i \in 1..Len(steps) |-> steps[i].indicators]),
        Flatten([i \in 1..Len(steps) |-> steps[i].objectives]),
        Flatten([i \in 1..Len(steps) |-> steps[i].calls]),
        \E i \in 1..Len(steps) : steps[i].panic)

\* sloDefinition with the weight 1 whatever the title says
SLODefinitionUnweighted(indicatorName, parsed) ==
  [SLI |-> indicatorName, Weight |-> 1, KeySLI |-> parsed.keySli,
   Pass |-> parsed.passCriteria, Warning |-> parsed.warnCriteria]

\* sloDefinition (lines 1143-1149 and 1215-1221)
SLODefinition(indicatorName, parsed) ==
  [SLI |-> indicatorName, Weight |-> parsed.weight, KeySLI |-> parsed.keySli,
   Pass |-> parsed.passCriteria, Warning |-> parsed.warnCriteria]

\* the sum of float64 values, as a fraction
RECURSIVE SumValues(_)
SumValues(values) ==
  IF values = <<>> THEN Zero
  ELSE LET rest == SumValues(Tail(values))
       IN  Float(Head(values).num * rest.den + rest.num * Head(values).den,
                 Head(values).den * rest.den)

\* lines 1120-1124: the mean of the values; 0/0, NaN, of no values
MeanValue(values) ==
  IF values = <<>> THEN [num |-> 0, den |-> 0]
  ELSE Float(SumValues(values).num, SumValues(values).den * Len(values))

\* lines 1066-1152: what one data entry of a matching result adds, a being
\* the aggregators of the series and dataResultCount the number of entries
DataEntryResult(parsed, series, metricDefinition, metricQuery, a, singleDataEntry, dataResultCount) ==
  LET dimensions == singleDataEntry.dimensions
      dimensionIncrement == IF Len(dimensions) # Len(series.Dimensions) * 2 THEN 1 ELSE 2
      \* the positions dimIx + 1 the loop of lines 1093-1103 visits
      visited == IF dataResultCount > 1
                 THEN [k \in 1..((Len(dimensions) + dimensionIncrement - 1)
                                   \div dimensionIncrement) |->
                         (k - 1) * dimensionIncrement + 1]
                 ELSE <<>>
      indicatorName ==
        cleanIndicatorName(parsed.sliName
                             \o ConcatAll([k \in 1..Len(visited) |->
                                             "_" \o dimensions[visited[k]]]))
      filterSLIDefinitionAggregatorValue ==
        IF visited = <<>> THEN ":names"
        ELSE ":names" \o Replace(a.filterSLIDefinitionAggregator, "FILTERDIMENSIONVALUE",
                                 dimensions[visited[Len(visited)]], 1)
      metricQueryForSLI ==
        metricQuery
          \o (IF a.entitySelectorSLIDefinition # "" /\ dimensionIncrement = 2
              THEN ConcatAll([k \in 1..Len(visited) |->
                                Replace(a.entitySelectorSLIDefinition, "FILTERDIMENSIONVALUE",
                                        dimensions[visited[k] + 1], 1)])
              ELSE "")
  IN  Added(<<[Metric |-> indicatorName,
               Value |-> scaleData(metricDefinition.MetricID, metricDefinition.Unit,
                                   MeanValue(singleDataEntry.values)),
               Success |-> TRUE, Message |-> ""]>>,
            <<[name |-> indicatorName,
               query |-> "MV2;" \o metricDefinition.Unit \o ";"
                           \o Replace(metricQueryForSLI, ":names",
                                      filterSLIDefinitionAggregatorValue, 1)]>>,
            <<SLODefinition(indicatorName, parsed)>>, <<>>, FALSE)

\* lines 1062-1156: what the results of a metrics query add
QueryResults(parsed, series, metricDefinition, metricQuery, a, metricID, results) ==
  AddedBy(Flatten([i \in 1..Len(results) |->
                     IF isMatchingMetricID(results[i].metricId, metricID)
                     THEN [j \in 1..Len(results[i].data) |->
                             DataEntryResult(parsed, series, metricDefinition, metricQuery, a,
                                             results[i].data[j], Len(results[i].data))]
                     ELSE <<>>]))

\* lines 1050-1157 with the failure branch leaving the series without a
\* result
QueriedSeriesSilent(parsed, series, metricDefinition, metricQuery, a, b, r) ==
  AddedBy(<<Added(<<>>, <<>>, <<>>, <<[api |-> "metrics", arg |-> b.url]>>, FALSE),
            IF r.err # NoErr THEN Added(<<>>, <<>>, <<>>, <<>>, FALSE)
            ELSE QueryResults(parsed, series, metricDefinition, metricQuery, a,
                              b.metricSelector, r.Result)>>)

\* lines 1050-1157: the metrics query of a series built, b being what
\* BuildDynatraceMetricsQuery returned and r what ExecuteMetricsAPIQuery did
QueriedSeries(parsed, series, metricDefinition, metricQuery, a, b, r) ==
  AddedBy(<<Added(<<>>, <<>>, <<>>, <<[api |-> "metrics", arg |-> b.url]>>, FALSE),
            IF r.err # NoErr
            THEN Added(<<[Metric |-> parsed.sliName, Value |-> Zero, Success |-> FALSE,
                          Message |-> r.err]>>,
                       <<[name |-> parsed.sliName, query |-> metricQuery]>>,
                       <<>>, <<>>, FALSE)
            ELSE QueryResults(parsed, series, metricDefinition, metricQuery, a,
                              b.metricSelector, r.Result)>>)

\* lines 1046-1157 for the metricQuery of a series
BuiltSeries(ph, parsed, series, metricDefinition, metricQuery, a, vendor, startUnix, endUnix) ==
  QueriedSeries(parsed, series, metricDefinition, metricQuery, a,
                BuildDynatraceMetricsQuery(ph, metricQuery, startUnix, endUnix),
                ExecuteMetricsAPIQuery(vendor.metrics))

\* lines 963-1157 for a series whose metric was described
DescribedSeries(ph, tile, parsed, series, metricDefinition, mzFilter, a, vendor, startUnix, endUnix) ==
  BuiltSeries(ph, parsed, series, metricDefinition,
              SeriesQuery(tile, series, metricDefinition, mzFilter, a), a,
              vendor, startUnix, endUnix)

\* lines 952-1158: what one series of a custom chart adds, metricDefinition
\* being what ExecuteMetricAPIDescribe returned
ChartSeries(ph, tile, parsed, series, metricDefinition, mzFilter, vendor, startUnix, endUnix) ==
  AddedBy(<<Added(<<>>, <<>>, <<>>,
                  <<[api |-> "describe", arg |-> ph.ApiURL \o "/api/v2/metrics/" \o series.Metric]>>,
                  FALSE),
            IF metricDefinition.err # NoErr THEN Added(<<>>, <<>>, <<>>, <<>>, FALSE)
            ELSE DescribedSeries(ph, tile, parsed, series, metricDefinition, mzFilter,
                                 SeriesAggregators(series, metricDefinition),
                                 vendor, startUnix, endUnix)>>)

\* lines 946-1159: what a CUSTOM_CHARTING tile adds
CustomChart(ph, tile, parsed, mzFilter, vendor, startUnix, endUnix) ==
  AddedBy([i \in 1..Len(tile.FilterConfig.ChartConfig.Series) |->
             ChartSeries(ph, tile, parsed, tile.FilterConfig.ChartConfig.Series[i],
                         ExecuteMetricAPIDescribe(vendor.describe), mzFilter, vendor,
                         startUnix, endUnix)])

\* lines 1176-1222: what one row of a USQL result adds
DTAQLRow(tile, parsed, row) ==
  LET indicatorName == IF row.dimensionName # ""
                       THEN parsed.sliName \o "_" \o row.dimensionName
                       ELSE parsed.sliName
  IN  IF row.panic THEN Added(<<>>, <<>>, <<>>, <<>>, TRUE)
      ELSE IF row.skip THEN Added(<<>>, <<>>, <<>>, <<>>, FALSE)
      ELSE Added(<<[Metric |-> indicatorName, Value |-> row.dimensionValue,
                    Success |-> TRUE, Message |-> ""]>>,
                 <<[name |-> indicatorName,
                    query |-> "USQL;" \o tile.Type \o ";" \o row.dimensionName \o ";"
                                \o tile.Query]>>,
                 <<SLODefinition(indicatorName, parsed)>>, <<>>, FALSE)

\* lines 1162-1226: what a DTAQL tile adds, usql being what
\* BuildDynatraceUSQLQuery returned and usqlResult what ExecuteUSQLQuery did;
\* a nil result without an error is dereferenced at line 1176
DTAQL(tile, parsed, usql, usqlResult) ==
  AddedBy(<<Added(<<>>, <<>>, <<>>, <<[api |-> "usql", arg |-> usql.url]>>,
                  usqlResult.err = NoErr /\ usqlResult.isNil)>>
            \o (IF usqlResult.err # NoErr THEN <<>>
                ELSE [i \in 1..Len(usqlResult.Values) |->
                        DTAQLRow(tile, parsed, UsqlRow(usqlResult.Values[i], tile.Type))]))

\* lines 936-1227: what a tile with the indicator name of parsed adds
IndicatorTile(ph, tile, parsed, mzFilter, vendor, startUnix, endUnix) ==
  IF tile.TileType = "CUSTOM_CHARTING"
  THEN CustomChart(ph, tile, parsed, mzFilter, vendor, startUnix, endUnix)
  ELSE IF tile.TileType = "DTAQL"
  THEN DTAQL(tile, parsed, BuildDynatraceUSQLQuery(ph, tile.Query, startUnix, endUnix),
             ExecuteUSQLQuery(vendor.usql))
  ELSE Added(<<>>, <<>>, <<>>, <<>>, FALSE)

\* lines 931-1227: what a tile adds whose title gave parsed
TitledTile(ph, tile, parsed, mzFilter, vendor, startUnix, endUnix) ==
  IF parsed.sliName = "" THEN Added(<<>>, <<>>, <<>>, <<>>, FALSE)
  ELSE IndicatorTile(ph, tile, parsed, mzFilter, vendor, startUnix, endUnix)

\* tileTitle (lines 935-938)
TileTitle(tile) ==
  IF tile.FilterConfig.CustomName = "" THEN tile.CustomName
  ELSE tile.FilterConfig.CustomName

\* TileResults going on with a tile whatever its title and its type gave
TileResultsOfAnyTile(ph, tile, mzFilter, vendor, startUnix, endUnix) ==
  IF tile.TileType = "MARKDOWN" THEN Added(<<>>, <<>>, <<>>, <<>>, FALSE)
  ELSE IndicatorTile(ph,
                     IF tile.TileType = "SYNTHETIC_TESTS"
                     THEN [tile EXCEPT !.TileType = "CUSTOM_CHARTING"] ELSE tile,
                     ParsePassAndWarningFromString(TileTitle(tile), <<>>, <<>>),
                     mzFilter, vendor, startUnix, endUnix)

\* lines 919-1227: what a tile adds; a MARKDOWN tile adds nothing of these
TileResults(ph, tile, mzFilter, vendor, startUnix, endUnix) ==
  IF tile.TileType \in {"SYNTHETIC_TESTS", "MARKDOWN"}
  THEN Added(<<>>, <<>>, <<>>, <<>>, FALSE)
  ELSE TitledTile(ph, tile, ParsePassAndWarningFromString(TileTitle(tile), <<>>, <<>>),
                  mzFilter, vendor, startUnix, endUnix)

\* lines 924-932: dashboardSLO after a tile
TileSLO(tile, slo) ==
  IF tile.TileType = "MARKDOWN" /\ Contains(tile.Markdown, "KQG.")
  THEN ParseMarkdownConfiguration(tile.Markdown, slo)
  ELSE slo

\* dashboardSLI.Indicators after the assignments, the last one to a name last
AssignIndicators(Indicators, assigned) ==
  LET names == {assigned[i].name : i \in 1..Len(assigned)}
      last(n) == CHOOSE i \in 1..Len(assigned) :
                   /\ assigned[i].name = n
                   /\ \A j \in (i + 1)..Len(assigned) : assigned[j].name # n
  IN  [n \in DOMAIN Indicators \cup names |->
         IF n \in names THEN assigned[last(n)].query ELSE Indicators[n]]

\* acc after a tile that added what added says
AfterTile(acc, tile, added) ==
  [sliResults |-> acc.sliResults \o added.sliResults,
   dashboardSLI |-> [acc.dashboardSLI EXCEPT
                       !.Indicators = AssignIndicators(@, added.indicators)],
   dashboardSLO |-> [TileSLO(tile, acc.dashboardSLO) EXCEPT
                       !.Objectives = @ \o added.objectives],
   calls |-> acc.calls \o added.calls,
   panic |-> added.panic]

\* the loop of lines 918-1229 from tile i on, acc being [sliResults,
\* dashboardSLI, dashboardSLO, calls, panic] so far
RECURSIVE ProcessTiles(_, _, _, _, _, _, _, _)
ProcessTiles(ph, tiles, i, acc, mzFilter, vendor, startUnix, endUnix) ==
  IF i > Len(tiles) \/ acc.panic THEN acc
  ELSE ProcessTiles(ph, tiles, i + 1,
                    AfterTile(acc, tiles[i],
                              TileResults(ph, tiles[i], mzFilter, vendor, startUnix, endUnix)),
                    mzFilter, vendor, startUnix, endUnix)

\* what QueryDynatraceDashboardForSLIs returns at line 1231, parsed being
\* what it held before the loop over the tiles and acc what the loop left
ParsedDashboard(parsed, acc) ==
  [parsed EXCEPT !.dashboardSLI = acc.dashboardSLI, !.dashboardSLO = acc.dashboardSLO,
                 !.sliResults = acc.sliResults, !.calls = acc.calls, !.panic = acc.panic]

\* lines 918-1231 for what the function holds before the loop
ParseTiles(ph, parsed, vendor, startUnix, endUnix) ==
  ParsedDashboard(parsed,
                  ProcessTiles(ph, parsed.dashboardJSON.Tiles, 1,
                               [sliResults |-> <<>>, dashboardSLI |-> parsed.dashboardSLI,
                                dashboardSLO |-> parsed.dashboardSLO,
                                calls |-> parsed.calls, panic |-> FALSE],
                               IF ~parsed.dashboardJSON.DashboardMetadata.DashboardFilter.isNil
                                  /\ ~parsed.dashboardJSON.DashboardMetadata.DashboardFilter.ManagementZone.isNil
                               THEN ",mzId("
                                      \o parsed.dashboardJSON.DashboardMetadata.DashboardFilter.ManagementZone.ID
                                      \o ")"
                               ELSE "",
                               vendor, startUnix, endUnix))

\* QueryDynatraceDashboardForSLIs after loadDynatraceDashboard returned loaded
\* (lines 877-1231), vendor being what the vendor answers to the requests of
\* the tiles: [describe, metrics, usql]
ProcessDashboard(ph, loaded, existingDashboardContent, startUnix, endUnix, selector, vendor) ==
  IF loaded.err # NoErr
  THEN DashboardResult("", NilDashboard, [isNil |-> TRUE], [isNil |-> TRUE],
                       "Error while processing dashboard config '" \o loaded.dashboard
                         \o "' - " \o loaded.err,
                       loaded, selector)
  ELSE IF loaded.dashboardJSON.isNil
  THEN DashboardResult("", NilDashboard, [isNil |-> TRUE], [isNil |-> TRUE], NoErr,
                       loaded, selector)
  ELSE IF ~HasDashboardChanged(MarshalIndent(loaded.dashboardJSON), existingDashboardContent)
  THEN DashboardResult(DashboardLink(ph, loaded.dashboardJSON, startUnix, endUnix),
                       NilDashboard, [isNil |-> TRUE], [isNil |-> TRUE], NoErr,
                       loaded, selector)
  ELSE ParseTiles(ph,
                  DashboardResult(DashboardLink(ph, loaded.dashboardJSON, startUnix, endUnix),
                                  loaded.dashboardJSON,
                                  [isNil |-> FALSE, SpecVersion |-> "0.1.4",
                                   Indicators |-> <<>>],
                                  [isNil |-> FALSE, Objectives |-> <<>>,
                                   TotalScore |-> [Pass |-> "90%", Warning |-> "75%"],
                                   Comparison |-> [CompareWith |-> "single_result",
                                                   IncludeResultWithScore |-> "pass",
                                                   NumberOfComparisonResults |-> 1,
                                                   AggregateFunction |-> "avg"]],
                                  NoErr, loaded, selector),
                  vendor, startUnix, endUnix)

\* QueryDynatraceDashboardForSLIs from line 876 on, selector being the
\* dashboard of lines 870-873
QuerySelectedDashboard(ph, keptnEvent, selector, startUnix, endUnix, existing, list, get, vendor) ==
  ProcessDashboard(ph, loadDynatraceDashboard(ph, keptnEvent, selector, list, get),
                   existing.content, startUnix, endUnix, selector, vendor)

\* lines 870-873 taking the dashboard.json for "query" whatever the selector
SelectorOverridden(dashboard, existing) ==
  IF existing.err = NoErr /\ existing.content # ""
  THEN DynatraceConfigDashboardQUERY ELSE dashboard

\* lines 869-873: the dashboard to load, existing being the [err, content]
\* GetKeptnResource returned for dashboard.json
Selector(dashboard, existing) ==
  IF existing.err = NoErr /\ existing.content # "" /\ dashboard = ""
  THEN DynatraceConfigDashboardQUERY ELSE dashboard

\* QueryDynatraceDashboardForSLIs(keptnEvent, dashboard, startUnix, endUnix)
QueryDynatraceDashboardForSLIs(ph, keptnEvent, dashboard, startUnix, endUnix, existing, list, get, vendor) ==
  QuerySelectedDashboard(ph, keptnEvent, Selector(dashboard, existing), startUnix,
                         endUnix, existing, list, get, vendor)

(***************************************************************************)
(* The dashboard loader on its own: calls of findDynatraceDashboard,       *)
(* loadDynatraceDashboard and QueryDynatraceDashboardForSLIs for the       *)
(* request sockshop/dev/carts.                                             *)
(***************************************************************************)

\* the longest list of dashboards the vendor answers with
MaxDashboards == 2

\* the vendor's answer with status 404
NotFound == [err |-> NoErr, status |-> 404, body |-> [valid |-> FALSE]]

\* a dashboard as decoded from the vendor's answer
Dashboard(id, name, filter) ==
  [isNil |-> FALSE, ID |-> id,
   DashboardMetadata |-> [Name |-> name, DashboardFilter |-> filter],
   Tiles |-> <<>>]

\* the calls of findDynatraceDashboard, loadDynatraceDashboard and
\* QueryDynatraceDashboardForSLIs.  list is what the vendor answers to the
\* request for the list of dashboards, get what it answers to the request for
\* one dashboard (one that is parsed on every run, or one parsed when it
\* changed), existing what GetKeptnResource returns for dashboard.json, and
\* dashboard the selector of dynatrace.conf.yaml
DashboardCalls ==
  LET ids == {"ddb6a571-4bda-4e8b-a9c0-4a3e02c2e14a",
              "11111111-2222-4333-8444-555555555555"}
      names == {"KQG;project=sockshop;service=carts;stage=dev",
                "kqg;Stage=DEV;x=y;Service=Carts;PROJECT=sockshop",
                "KQG;project=sockshop;service=carts",
                "KQG;project=sockshop;stage=dev;service=cartsdb",
                "KQG;service=carts;stage=dev;project=",
                "My KQG;project=sockshop;service=carts;stage=dev"}
      failures == {[err |-> "dial tcp: connection refused", status |-> 0,
                    body |-> [valid |-> FALSE]],
                   [err |-> NoErr, status |-> 404, body |-> [valid |-> FALSE]],
                   [err |-> NoErr, status |-> 200, body |-> [valid |-> FALSE]]}
      lists(n) == failures
                    \cup {[err |-> NoErr, status |-> 200,
                           body |-> [valid |-> TRUE, dashboards |-> l]] :
                            l \in SeqsUpTo([id : ids, name : names], n)}
      stored == {Dashboard("ddb6a571-4bda-4e8b-a9c0-4a3e02c2e14a",
                           "KQG;project=sockshop;service=carts;stage=dev",
                           [isNil |-> TRUE]),
                 Dashboard("11111111-2222-4333-8444-555555555555",
                           "KQG;project=sockshop;service=carts;stage=dev;KQG.QueryBehavior=ParseOnChange",
                           [isNil |-> FALSE,
                            ManagementZone |-> [isNil |-> FALSE, ID |-> "mz-1",
                                                Name |-> ""]])}
      gets == failures
                \cup {[err |-> NoErr, status |-> 200,
                       body |-> [valid |-> TRUE, dashboard |-> d]] : d \in stored}
      existing == {[err |-> "resource not found", content |-> ""],
                   [err |-> NoErr, content |-> ""],
                   [err |-> NoErr, content |-> "{}"]}
                    \cup {[err |-> NoErr, content |-> MarshalIndent(d)] : d \in stored}
  IN  [fn : {"findDynatraceDashboard"}, list : lists(MaxDashboards)]
      \cup [fn : {"loadDynatraceDashboard"}, dashboard : {DynatraceConfigDashboardQUERY},
            list : lists(MaxDashboards),
            get : {g \in gets : g.status = 404 \/ g.body.valid}]
      \cup [fn : {"QueryDynatraceDashboardForSLIs"},
            dashboard : {"", DynatraceConfigDashboardQUERY, "QUERY", "not-a-uuid",
                         "ddb6a571-4bda-4e8b-a9c0-4a3e02c2e14a",
                         "DDB6A571-4BDA-4E8B-A9C0-4A3E02C2E14A",
                         "ddb6a571-4bda-4e8b-|9c0-4a3e02c2e14a"},
            existing : existing, list : lists(1), get : gets,
            vendor : {[describe |-> NotFound, metrics |-> NotFound, usql |-> NotFound]}]

\* a tile of a dashboard as decoded from the vendor's answer, for the fields
\* the loop over the tiles reads
DashboardTile(tileType, customName, markdown, query, type, filterCustomName, series) ==
  [TileType |-> tileType, CustomName |-> customName, Markdown |-> markdown,
   Query |-> query, Type |-> type,
   TileFilter |-> [ManagementZone |-> [isNil |-> TRUE]],
   FilterConfig |-> [CustomName |-> filterCustomName,
                     ChartConfig |-> [Series |-> series],
                     FiltersPerEntityType |-> ("SERVICE" :> ("AUTO_TAGS" :> <<"keptn">>))]]

\* the series of the custom charts: the response time of the services, as
\* one value and split by service
ChartSeriesGiven ==
  [merged |-> [Metric |-> "builtin:service.response.time", Aggregation |-> "NONE",
               Percentile |-> [isNil |-> TRUE], EntityType |-> "SERVICE",
               Dimensions |-> <<>>],
   split |-> [Metric |-> "builtin:service.response.time", Aggregation |-> "PERCENTILE",
              Percentile |-> [isNil |-> FALSE, value |-> Float(95, 1)],
              EntityType |-> "SERVICE",
              Dimensions |-> <<[ID |-> "0", Name |-> "dt.entity.service",
                                Values |-> <<>>, EntityDimension |-> TRUE]>>]]

\* the tiles of the dashboards of TileCalls
TilesGiven ==
  [chart |-> DashboardTile("CUSTOM_CHARTING", "", "", "", "",
                           "Response time;sli=rt;pass=<500;weight=2", <<ChartSeriesGiven.merged>>),
   services |-> DashboardTile("CUSTOM_CHARTING", "", "", "", "",
                              "sli=svc rt;pass=<+10%,<600;key=true", <<ChartSeriesGiven.split>>),
   untitledChart |-> DashboardTile("CUSTOM_CHARTING", "sli=hidden", "", "", "",
                                   "Response time (no indicator)", <<ChartSeriesGiven.merged>>),
   usql |-> DashboardTile("DTAQL", "Browsers;sli=browser;warning=>1", "",
                          "SELECT browserFamily, count(*) FROM usersession GROUP BY browserFamily",
                          "PIE_CHART", "", <<>>),
   single |-> DashboardTile("DTAQL", "sli=sessions", "", "SELECT count(*) FROM usersession",
                            "SINGLE_VALUE", "", <<>>),
   untitledUsql |-> DashboardTile("DTAQL", "Sessions;slis=sessions;pass", "",
                                  "SELECT count(*) FROM usersession", "SINGLE_VALUE", "", <<>>),
   synthetic |-> DashboardTile("SYNTHETIC_TESTS", "sli=synthetic;pass=<1", "", "", "",
                               "sli=synthetic", <<ChartSeriesGiven.merged>>),
   markdown |-> DashboardTile("MARKDOWN", "", "KQG.Total.Pass=80%;KQG.Compare.Function=p90",
                              "", "", "", <<>>)]

\* the most tiles of a dashboard of TileCalls
MaxTiles == 2

\* the calls of QueryDynatraceDashboardForSLIs for dashboards with tiles:
\* the dashboard is asked for by its ID, the config store has no
\* dashboard.json, and the vendor answers describe to the requests for a
\* metric's definition, metrics to the metrics queries and usql to the USQL
\* queries (a definition or none, the values of one chart or of a chart
\* split by service or none, the rows of a USQL query with or without a
\* dimension, a refused connection or the status 404)
TileCalls ==
  LET tiles == {TilesGiven[n] : n \in DOMAIN TilesGiven}
      dashboards ==
        {[Dashboard("ddb6a571-4bda-4e8b-a9c0-4a3e02c2e14a",
                    "KQG;project=sockshop;service=carts;stage=dev",
                    [isNil |-> FALSE,
                     ManagementZone |-> [isNil |-> FALSE, ID |-> "mz-1", Name |-> ""]])
            EXCEPT !.Tiles = t] : t \in SeqsUpTo(tiles, MaxTiles) \ {<<>>}}
      ok(body) == [err |-> NoErr, status |-> 200, body |-> body]
      described == ok([valid |-> TRUE, metricId |-> "builtin:service.response.time",
                       unit |-> "MicroSecond", defaultAggregation |-> [Type |-> "AVG"],
                       dimensionDefinitions |-> <<[Name |-> "dt.entity.service"]>>,
                       entityType |-> <<"SERVICE">>])
      merged == ok([valid |-> TRUE,
                    result |-> <<[metricId |-> "builtin:service.response.time:merge(0):avg:names",
                                  data |-> <<[dimensions |-> <<>>,
                                              values |-> <<Float(1000, 1), Float(4000, 1)>>]>>]>>])
      split == ok([valid |-> TRUE,
                   result |-> <<[metricId |-> "builtin:service.response.time:percentile(95.000000):names",
                                 data |-> <<[dimensions |-> <<"carts", "SERVICE-1">>,
                                             values |-> <<Float(2000, 1)>>],
                                            [dimensions |-> <<"Carts DB", "SERVICE-2">>,
                                             values |-> <<>>]>>]>>])
      families == ok([valid |-> TRUE,
                      values |-> <<<<[str |-> "Chrome"], [num |-> Float(7, 1)]>>,
                                   <<[str |-> "Internet Explorer"], [num |-> Float(3, 1)]>>>>])
      count == ok([valid |-> TRUE, values |-> <<<<[num |-> Float(10, 1)]>>>>])
      refused == [err |-> "dial tcp: connection refused", status |-> 0,
                  body |-> [valid |-> FALSE]]
  IN  [fn : {"QueryDynatraceDashboardForSLIs"},
       dashboard : {"ddb6a571-4bda-4e8b-a9c0-4a3e02c2e14a"},
       existing : {[err |-> "resource not found", content |-> ""]},
       list : {NotFound},
       get : {ok([valid |-> TRUE, dashboard |-> d]) : d \in dashboards},
       vendor : {[describe |-> described, metrics |-> merged, usql |-> families],
                 [describe |-> described, metrics |-> split, usql |-> count],
                 [describe |-> NotFound, metrics |-> merged, usql |-> refused],
                 [describe |-> described, metrics |-> NotFound, usql |-> NotFound]}]

\* the handler of the calls
DashboardHandler ==
  RequestHandler([Tenant |-> "https://dt.local", ApiToken |-> "token", PaaSToken |-> "paas"],
                 <<>>)

InitDash ==
  /\ env = ""
  /\ Idle
  /\ args \in DashboardCalls
  /\ out = <<>>

CallFindDynatraceDashboard ==
  /\ out = <<>>
  /\ args.fn = "findDynatraceDashboard"
  /\ out' = <<findDynatraceDashboard(DashboardHandler, KeptnEvent, args.list)>>
  /\ UNCHANGED <<env, args, request>>

CallLoadDynatraceDashboard ==
  /\ out = <<>>
  /\ args.fn = "loadDynatraceDashboard"
  /\ out' = <<loadDynatraceDashboard(DashboardHandler, KeptnEvent, args.dashboard,
                                     args.list, args.get)>>
  /\ UNCHANGED <<env, args, request>>

CallQueryDynatraceDashboardForSLIs ==
  /\ out = <<>>
  /\ args.fn = "QueryDynatraceDashboardForSLIs"
  /\ out' = <<QueryDynatraceDashboardForSLIs(DashboardHandler, KeptnEvent, args.dashboard,
                                             RequestContext.Start, RequestContext.End,
                                             args.existing, args.list, args.get,
                                             args.vendor)>>
  /\ UNCHANGED <<env, args, request>>

NextDash ==
  \/ CallFindDynatraceDashboard
  \/ CallLoadDynatraceDashboard
  \/ CallQueryDynatraceDashboardForSLIs

SpecDash == InitDash /\ [][NextDash]_vars

\* the config store holds a non-empty dashboard.json
PriorDashboard == args.existing.err = NoErr /\ args.existing.content # ""

\* C9: with an empty selector and no dashboard.json in the config store (the
\* lookup failed or gave nothing), QueryDynatraceDashboardForSLIs returns no
\* link, no dashboard, no SLIs, no SLOs, no results and no error and has not
\* called the vendor; with an empty selector and a non-empty dashboard.json it
\* returns what it returns for the selector "query" with the same answers; a
\* non-empty selector is the one handed to the loader whatever the config
\* store holds, and only the selector "query" asks the vendor for the list.
C9_EmptySelectorFollowsDashboardJSON ==
  Returned("QueryDynatraceDashboardForSLIs") =>
     /\ (args.dashboard = "" /\ ~PriorDashboard) =>
          /\ out[1].link = "" /\ out[1].dashboardJSON.isNil
          /\ out[1].dashboardSLI.isNil /\ out[1].dashboardSLO.isNil
          /\ out[1].sliResults = <<>>
          /\ out[1].err = NoErr
          /\ out[1].calls = <<>>
     /\ (args.dashboard = "" /\ PriorDashboard) =>
          out[1] = QueryDynatraceDashboardForSLIs(
                     DashboardHandler, KeptnEvent, "query", RequestContext.Start,
                     RequestContext.End, args.existing, args.list, args.get,
                     args.vendor)
     /\ args.dashboard # "" =>
          /\ out[1].selector = args.dashboard
          /\ out[1] = QuerySelectedDashboard(
                        DashboardHandler, KeptnEvent, args.dashboard, RequestContext.Start,
                        RequestContext.End, args.existing, args.list, args.get,
                        args.vendor)
          /\ args.dashboard # "query" =>
               \A i \in 1..Len(out[1].calls) : out[1].calls[i].api # "dashboards"

\* an empty selector, a dashboard.json in the config store: the list was
\* asked for, the dashboard found in it was loaded and its link returned
C9_Witness ==
  /\ Returned("QueryDynatraceDashboardForSLIs")
  /\ args.dashboard = "" /\ PriorDashboard
  /\ out[1].selector = "query"
  /\ Len(out[1].calls) = 2 /\ out[1].calls[1].api = "dashboards"
  /\ out[1].err = NoErr /\ out[1].link # ""

\* an empty selector and no dashboard.json
C9_WitnessNoDashboard ==
  /\ Returned("QueryDynatraceDashboardForSLIs")
  /\ args.dashboard = "" /\ args.existing.err # NoErr
  /\ out[1].link = "" /\ out[1].err = NoErr /\ out[1].calls = <<>>

\* the name starts with kqg; and has the fragments project=, service= and
\* stage= of the request, letter case apart
Qualifies(name) ==
  LET lower == ToLower(name)
  IN  /\ HasPrefix(lower, "kqg;")
      /\ \A fragment \in {"project=" \o RequestContext.Project,
                          "service=" \o RequestContext.Service,
                          "stage=" \o RequestContext.Stage} :
           Contains(";" \o lower \o ";", ";" \o ToLower(fragment) \o ";")

\* the dashboards of the vendor's answer, none when it is not a list
Listed == IF args.list.err = NoErr /\ args.list.status = 200 /\ args.list.body.valid
          THEN args.list.body.dashboards ELSE <<>>

\* C10: findDynatraceDashboard returns the ID of the first dashboard of the
\* list whose name starts with kqg; and has the fragments project=<project>,
\* service=<service> and stage=<stage>, letter case apart, and the empty ID
\* when the list has none; for the selector "query" the loader goes on with
\* that ID, and when no dashboard qualifies it returns no dashboard and no
\* error, having asked the vendor for the list only.
C10_FirstQualifyingDashboard ==
  LET q == {i \in 1..Len(Listed) : Qualifies(Listed[i].name)}
      first == CHOOSE i \in q : \A j \in q : i <= j
  IN  /\ Returned("findDynatraceDashboard") =>
           /\ out[1].id = IF q = {} THEN "" ELSE Listed[first].id
           /\ q # {} => out[1].err = NoErr
      /\ (Returned("loadDynatraceDashboard") /\ args.dashboard = "query") =>
           /\ out[1].dashboard = IF q = {} THEN "" ELSE Listed[first].id
           /\ q = {} =>
                /\ out[1].dashboardJSON.isNil
                /\ out[1].err = NoErr
                /\ Len(out[1].calls) = 1 /\ out[1].calls[1].api = "dashboards"

\* a list of two: the first dashboard lacks the stage, the second qualifies
\* in other letter case and order, and is the one found
C10_Witness ==
  /\ Returned("findDynatraceDashboard")
  /\ Len(Listed) = 2
  /\ Listed[1].name = "KQG;project=sockshop;service=carts"
  /\ Listed[2].name = "kqg;Stage=DEV;x=y;Service=Carts;PROJECT=sockshop"
  /\ Listed[1].id # Listed[2].id
  /\ out[1].id = Listed[2].id

\* the selector "query" and a list in which no dashboard qualifies
C10_WitnessNoDashboard ==
  /\ Returned("loadDynatraceDashboard") /\ args.dashboard = "query"
  /\ Len(Listed) = 2
  /\ out[1].dashboard = "" /\ out[1].dashboardJSON.isNil /\ out[1].err = NoErr

\* the pattern ^[a-f0-9]{8}-[a-f0-9]{4}-4[a-f0-9]{3}-[89ab][a-f0-9]{3}-[a-f0-9]{12}$
\* matched without regard to letter case
MatchesUUIDv4(id) ==
  /\ Len(id) = 36
  /\ \A i \in 1..36 :
       LET c == ToLower(SubSeq(id, i, i))
       IN  IF i \in {9, 14, 19, 24} THEN c = "-"
           ELSE IF i = 15 THEN c = "4"
           ELSE IF i = 20 THEN c \in {"8", "9", "a", "b"}
           ELSE c \in {"0", "1", "2", "3", "4", "5", "6", "7", "8", "9",
                       "a", "b", "c", "d", "e", "f"}

\* the dashboard ID QueryDynatraceDashboardForSLIs goes on with: the selector,
\* or for "query" the ID of the first qualifying dashboard of the list
DashboardID ==
  IF out[1].selector # "query" THEN out[1].selector
  ELSE LET q == {i \in 1..Len(Listed) : Qualifies(Listed[i].name)}
       IN  IF q = {} THEN ""
           ELSE Listed[CHOOSE i \in q : \A j \in q : i <= j].id

\* the dashboard was asked for by its ID
FetchedByID == \E i \in 1..Len(out[1].calls) : out[1].calls[i].api = "dashboard"

\* C11: a non-empty dashboard ID is fetched by ID if and only if it matches
\* the version-4 UUID pattern with [89ab] at the variant place, letter case
\* apart; for any other ID dashboard processing fails with an error, without
\* the fetch and without results.
C11_FetchedIffUUIDv4 ==
  (Returned("QueryDynatraceDashboardForSLIs") /\ DashboardID # "") =>
     /\ FetchedByID <=> MatchesUUIDv4(DashboardID)
     /\ ~MatchesUUIDv4(DashboardID) =>
          /\ out[1].err # NoErr
          /\ out[1].dashboardJSON.isNil /\ out[1].sliResults = <<>>

C12_WitnessNoMarker ==
  /\ Returned("QueryDynatraceDashboardForSLIs") /\ FetchedByID /\ out[1].err = NoErr
  /\ args.existing.content = MarshalIndent(args.get.body.dashboard)
  /\ ~Contains(args.existing.content, "KQG.QueryBehavior=ParseOnChange")
  /\ ~out[1].dashboardJSON.isNil

(***************************************************************************)
(* The query compiler called on its own: BuildDynatraceMetricsQuery for    *)
(* metric selectors and parameter strings in the legacy form M?P, in the   *)
(* form metricSelector=M&P and in that form with a leading "?", over two   *)
(* windows.                                                                *)

InitTiles ==
  /\ env = ""
  /\ Idle
  /\ args \in TileCalls
  /\ out = <<>>

NextTiles == CallQueryDynatraceDashboardForSLIs

SpecTiles == InitTiles /\ [][NextTiles]_vars

\* the title has a fragment sli=
HasSliFragment(title) ==
  \E i \in 1..Len(Split(title, ";")) : HasPrefix(Split(title, ";")[i], "sli=")

\* a SYNTHETIC_TESTS tile or a tile whose title has no sli= fragment
Skipped(tile) ==
  tile.TileType = "SYNTHETIC_TESTS" \/ ~HasSliFragment(TileTitle(tile))

\* the vendor's answer for the dashboard without the tiles skipped
WithoutSkipped(get) ==
  IF get.err = NoErr /\ get.status = 200 /\ get.body.valid
  THEN [get EXCEPT !.body.dashboard.Tiles = SelectSeq(@, LAMBDA tile : ~Skipped(tile))]
  ELSE get

\* the tiles of the dashboard the vendor answered with
TilesAnswered ==
  IF args.get.err = NoErr /\ args.get.status = 200 /\ args.get.body.valid
  THEN args.get.body.dashboard.Tiles ELSE <<>>

\* what a compile gives apart from the dashboard itself
Compiled(result) ==
  [sliResults |-> result.sliResults,
   Indicators |-> IF result.dashboardSLI.isNil THEN <<>> ELSE result.dashboardSLI.Indicators,
   Objectives |-> IF result.dashboardSLO.isNil THEN <<>> ELSE result.dashboardSLO.Objectives,
   calls |-> result.calls, panic |-> result.panic, err |-> result.err]

\* C20: in a dashboard compile a tile whose title (filterConfig.customName,
\* else customName) has no sli= fragment, and every SYNTHETIC_TESTS tile,
\* contributes nothing: the SLIResults, the indicators of the SLI config, the
\* objectives of the SLO and the vendor calls made are those of the compile of
\* the same dashboard without these tiles
C20_SkippedTilesAddNothing ==
  Returned("QueryDynatraceDashboardForSLIs") =>
    Compiled(out[1])
      = Compiled(QueryDynatraceDashboardForSLIs(
                   DashboardHandler, KeptnEvent, args.dashboard, RequestContext.Start,
                   RequestContext.End, args.existing, args.list,
                   WithoutSkipped(args.get), args.vendor))

\* a dashboard compiled with a SYNTHETIC_TESTS tile titled sli=synthetic next
\* to a tile that gave results
C20_Witness ==
  /\ Returned("QueryDynatraceDashboardForSLIs")
  /\ \E i \in 1..Len(TilesAnswered) :
       /\ TilesAnswered[i].TileType = "SYNTHETIC_TESTS"
       /\ HasSliFragment(TileTitle(TilesAnswered[i]))
  /\ out[1].sliResults # <<>>
  /\ \A i \in 1..Len(out[1].sliResults) : out[1].sliResults[i].Metric # "synthetic"
  /\ "synthetic" \notin DOMAIN out[1].dashboardSLI.Indicators

\* a dashboard compiled whose tiles are charts and USQL tiles without an
\* sli= fragment: the dashboard was loaded and nothing else asked for
C20_WitnessNoFragment ==
  /\ Returned("QueryDynatraceDashboardForSLIs")
  /\ Len(TilesAnswered) = MaxTiles
  /\ \A i \in 1..Len(TilesAnswered) :
       /\ TilesAnswered[i].TileType \in {"CUSTOM_CHARTING", "DTAQL"}
       /\ ~HasSliFragment(TileTitle(TilesAnswered[i]))
  /\ args.vendor.usql.status = 200 /\ args.vendor.metrics.status = 200
  /\ ~out[1].dashboardJSON.isNil
  /\ out[1].sliResults = <<>> /\ out[1].dashboardSLO.Objectives = <<>>
  /\ Len(out[1].calls) = 1

\* the name has none of the characters cleanIndicatorName replaces
Sanitised(name) ==
  ~Contains(name, " ") /\ ~Contains(name, "/") /\ ~Contains(name, "%")

\* C21: every SLIResult the dashboard compiler returns, from CUSTOM_CHARTING
\* tiles and from DTAQL tiles, on success and on failure, has a metric name
\* without a space, a "/" or a "%"
C21_MetricNamesSanitised ==
  (Returned("QueryDynatraceDashboardForSLIs") /\ ~out[1].panic) =>
    \A i \in 1..Len(out[1].sliResults) : Sanitised(out[1].sliResults[i].Metric)

\* the SLIResults of the successful series of the custom charts have such
\* names, what the metric's dimensions are called apart
C21_ChartResultsSanitised ==
  (Returned("QueryDynatraceDashboardForSLIs") /\ ~out[1].panic) =>
    \A i \in 1..Len(out[1].sliResults) :
      (out[1].sliResults[i].Success
         /\ Contains(out[1].dashboardSLI.Indicators[out[1].sliResults[i].Metric], "MV2;"))
        => Sanitised(out[1].sliResults[i].Metric)

\* a row of a DTAQL tile whose dimension has a space gave a result
C21_WitnessRow ==
  /\ Returned("QueryDynatraceDashboardForSLIs") /\ ~out[1].panic
  /\ \E i \in 1..Len(out[1].sliResults) :
       out[1].sliResults[i].Success /\ out[1].sliResults[i].Metric = "browser_Internet Explorer"

\* a failed series of a chart titled "sli=svc rt" gave a result
C21_WitnessFailedSeries ==
  /\ Returned("QueryDynatraceDashboardForSLIs") /\ ~out[1].panic
  /\ \E i \in 1..Len(out[1].sliResults) :
       ~out[1].sliResults[i].Success /\ out[1].sliResults[i].Metric = "svc rt"

\* a successful series split by service gave a result for "Carts DB"
C21_WitnessChart ==
  /\ Returned("QueryDynatraceDashboardForSLIs") /\ ~out[1].panic
  /\ \E i \in 1..Len(out[1].sliResults) : out[1].sliResults[i].Metric = "svc_rt_Carts_DB"

\* the SLIResults of the compile that are successes
Successes == SelectSeq(out[1].sliResults, LAMBDA r : r.Success)

\* the objective has the weight, the key flag and the criteria of the title
\* of the tile
ObjectiveOfTile(objective, tile) ==
  /\ tile.TileType \in {"CUSTOM_CHARTING", "DTAQL"}
  /\ HasSliFragment(TileTitle(tile))
  /\ HasPrefix(objective.SLI,
               cleanIndicatorName(ParsePassAndWarningFromString(TileTitle(tile), <<>>, <<>>).sliName))
  /\ objective.Weight = ParsePassAndWarningFromString(TileTitle(tile), <<>>, <<>>).weight
  /\ objective.KeySLI = ParsePassAndWarningFromString(TileTitle(tile), <<>>, <<>>).keySli
  /\ objective.Pass = ParsePassAndWarningFromString(TileTitle(tile), <<>>, <<>>).passCriteria
  /\ objective.Warning = ParsePassAndWarningFromString(TileTitle(tile), <<>>, <<>>).warnCriteria

\* C28: after a dashboard compile that returns results, the sli names of
\* the objectives of the SLO, in order, are the metric names of the
\* successful SLIResults, in order (one objective for each success, none
\* for a failure), every objective has the weight, the key flag and the
\* pass and warning criteria of the title of a tile of its indicator, and
\* the metric name of every SLIResult is a key of the indicators of the
\* SLI config
C28_ObjectivesFollowSuccesses ==
  (Returned("QueryDynatraceDashboardForSLIs") /\ ~out[1].panic /\ out[1].sliResults # <<>>) =>
    /\ [i \in 1..Len(out[1].dashboardSLO.Objectives) |-> out[1].dashboardSLO.Objectives[i].SLI]
         = [i \in 1..Len(Successes) |-> Successes[i].Metric]
    /\ \A i \in 1..Len(out[1].dashboardSLO.Objectives) :
         \E t \in 1..Len(TilesAnswered) :
           ObjectiveOfTile(out[1].dashboardSLO.Objectives[i], TilesAnswered[t])
    /\ \A i \in 1..Len(out[1].sliResults) :
         out[1].sliResults[i].Metric \in DOMAIN out[1].dashboardSLI.Indicators

\* a chart of two series whose metrics queries were refused before a USQL
\* tile that gave a value: three results, one objective
C28_Witness ==
  /\ Returned("QueryDynatraceDashboardForSLIs") /\ ~out[1].panic
  /\ Len(out[1].sliResults) = 3
  /\ ~out[1].sliResults[1].Success /\ out[1].sliResults[1].Metric = "pair"
  /\ ~out[1].sliResults[2].Success /\ out[1].sliResults[2].Metric = "pair"
  /\ out[1].sliResults[3].Success /\ out[1].sliResults[3].Metric = "sessions"
  /\ out[1].dashboardSLO.Objectives
       = <<[SLI |-> "sessions", Weight |-> 1, KeySLI |-> FALSE, Pass |-> <<>>, Warning |-> <<>>]>>
  /\ DOMAIN out[1].dashboardSLI.Indicators = {"pair", "sessions"}

\* the charts "Response time;sli=rt;pass=<500;weight=2" and
\* "Both;sli=pair;pass=<500;warning=<800;key=true" with values: the
\* objectives carry what the titles say
C28_WitnessTitles ==
  /\ Returned("QueryDynatraceDashboardForSLIs") /\ ~out[1].panic
  /\ out[1].dashboardSLO.Objectives
       = <<[SLI |-> "rt", Weight |-> 2, KeySLI |-> FALSE,
            Pass |-> <<[Criteria |-> <<"<500">>]>>, Warning |-> <<>>],
           [SLI |-> "pair", Weight |-> 1, KeySLI |-> TRUE,
            Pass |-> <<[Criteria |-> <<"<500">>]>>,
            Warning |-> <<[Criteria |-> <<"<800">>]>>]>>
  /\ [i \in 1..Len(out[1].sliResults) |-> out[1].sliResults[i].Metric] = <<"rt", "pair">>

(***************************************************************************)
\* the metric query of a call
MetricQuery(form, M, P) ==
  IF form = "legacy" THEN M \o "?" \o P
  ELSE IF form = "new" THEN "metricSelector=" \o M \o "&" \o P
  ELSE "?metricSelector=" \o M \o "&" \o P

\* the calls of BuildDynatraceMetricsQuery
MetricsQueryCalls ==
  [fn : {"BuildDynatraceMetricsQuery"},
   form : {"legacy", "new", "?new"},
   M : {"builtin:service.response.time:merge(0):percentile(95)", "foo", "a+b%3Ac", ""},
   P : {"", "bar=baz", "metricSelector=foo", "scope=tag(foo)", "scope=type(SERVICE),tag(foo)", "scope=",
        "entitySelector=type(HOST)", "entitySelector=type(HOST)&scope=tag(foo)",
        "from=5&resolution=1h&to=6",
        "entitySelector=type(SERVICE),tag(keptn_project:$PROJECT)"},
   startUnix : {1000, 0},
   endUnix : {2000}]

\* the calls of replaceQueryParameters: queries with the placeholders, alone
\* and in a text, for requests with labels (in the order the range statement
\* visits the map) and custom filters
ExpandCalls ==
  LET label(k, v) == [key |-> k, value |-> v]
      filter(k, v) == [Key |-> k, Value |-> v]
  IN  [fn : {"replaceQueryParameters"},
       query : {"$CONTEXT", "$EVENT", "$SOURCE", "$PROJECT", "$STAGE", "$SERVICE",
                "$DEPLOYMENT", "$TESTSTRATEGY", "$LABEL.a", "$LABEL.ab", "$svc", "$SVC",
                "$svcname", "$SVCNAME", "$tier",
                "tag(keptn_project:$PROJECT),tag(keptn_stage:$STAGE),tag($LABEL.a)",
                "type(SERVICE),tag($svcname),tag($TIER)", "builtin:no.placeholder"},
       Labels : {<<>>, <<label("a", "1")>>, <<label("a", "1"), label("ab", "2")>>,
                 <<label("ab", "2"), label("a", "1")>>, <<label("a", "$PROJECT")>>},
       CustomFilters : {<<>>, <<filter("tier", "'front'")>>,
                        <<filter("svc", "x"), filter("svcname", "y")>>,
                        <<filter("svcname", "y"), filter("svc", "x")>>}]

InitQuery ==
  /\ env = ""
  /\ Idle
  /\ args \in MetricsQueryCalls \cup ExpandCalls
  /\ out = <<>>

CallBuildDynatraceMetricsQuery ==
  /\ out = <<>>
  /\ args.fn = "BuildDynatraceMetricsQuery"
  /\ out' = <<BuildDynatraceMetricsQuery(DashboardHandler,
                                         MetricQuery(args.form, args.M, args.P),
                                         args.startUnix, args.endUnix)>>
  /\ UNCHANGED <<env, args, request>>

CallReplaceQueryParameters ==
  /\ out = <<>>
  /\ args.fn = "replaceQueryParameters"
  /\ out' = <<replaceQueryParameters(
                NewDynatraceHandler("https://dt.local",
                                    [KeptnEvent EXCEPT !.Labels = args.Labels,
                                                       !.Source = "jmeter",
                                                       !.Event = "sh.keptn.internal.event.get-sli",
                                                       !.Deployment = "direct"],
                                    <<>>, args.CustomFilters, <<>>),
                args.query)>>
  /\ UNCHANGED <<env, args, request>>

NextQuery == CallBuildDynatraceMetricsQuery \/ CallReplaceQueryParameters

SpecQuery == InitQuery /\ [][NextQuery]_vars

\* the values of a key in q, in order
RECURSIVE ValuesOf(_, _)
ValuesOf(q, key) ==
  IF q = <<>> THEN <<>>
  ELSE (IF Head(q).key = key THEN <<Head(q).value>> ELSE <<>>) \o ValuesOf(Tail(q), key)

\* the parameters of the URL returned, and those the input query carried
URLValues == ParseQuery(RawQuery(out[1].url))
GivenValues ==
  ParseQuery(replaceQueryParameters(DashboardHandler,
                                    "metricSelector=" \o args.M \o "&" \o args.P).query)

\* C13: every URL BuildDynatraceMetricsQuery returns for a window has, after
\* whatever resolution, from and to values the input query carried itself,
\* the values Inf, the start and the end of the window as the last resolution,
\* from and to parameters; the parameters are written sorted by key, so the
\* text resolution=Inf&from= does not occur in the URL.
C13_WindowAppended ==
  Returned("BuildDynatraceMetricsQuery") =>
     /\ ValuesOf(URLValues, "resolution") = ValuesOf(GivenValues, "resolution") \o <<"Inf">>
     /\ ValuesOf(URLValues, "from")
          = ValuesOf(GivenValues, "from") \o <<TimestampToString(args.startUnix)>>
     /\ ValuesOf(URLValues, "to")
          = ValuesOf(GivenValues, "to") \o <<TimestampToString(args.endUnix)>>
     /\ ~Contains(out[1].url, "resolution=Inf&from=")

\* C13 as stated: the resolution, from and to parameters of the URL are Inf,
\* the start and the end of the window, whatever the input query carried
C13_WindowWhateverCarried ==
  Returned("BuildDynatraceMetricsQuery") =>
     /\ ValuesOf(URLValues, "resolution") = <<"Inf">>
     /\ ValuesOf(URLValues, "from") = <<TimestampToString(args.startUnix)>>
     /\ ValuesOf(URLValues, "to") = <<TimestampToString(args.endUnix)>>

\* a query that carried its own window comes back with both
C13_Witness ==
  /\ Returned("BuildDynatraceMetricsQuery")
  /\ args.P = "from=5&resolution=1h&to=6"
  /\ args.startUnix = 1000
  /\ Contains(out[1].url, "?from=5&from=1000&metricSelector=")
  /\ Contains(out[1].url, "&resolution=1h&resolution=Inf&to=6&to=2000")

\* a query without window parameters gets exactly the window of the call
C13_WitnessPlain ==
  /\ Returned("BuildDynatraceMetricsQuery")
  /\ args.form = "new" /\ args.M = "foo" /\ args.P = "bar=baz" /\ args.startUnix = 1000
  /\ out[1].url = "https://dt.local/api/v2/metrics/query/?bar=baz&from=1000&metricSelector=foo&resolution=Inf&to=2000"

\* the URL of the same selector and parameters in the form metricSelector=M&P
NewFormURL ==
  BuildDynatraceMetricsQuery(DashboardHandler, MetricQuery("new", args.M, args.P),
                             args.startUnix, args.endUnix).url

\* an empty selector before parameters that begin with metricSelector=: the
\* text ?metricSelector=..., which line 578 reads as the new form
ReadAsNewForm == args.M = "" /\ HasPrefix(args.P, "metricSelector=")

\* C14: the legacy form M?P compiles to the same URL as metricSelector=M&P
\* over the same window, for every selector M and parameter string P except
\* an empty M before a P that begins with metricSelector=; that text compiles
\* to the URL of P alone, without the empty metricSelector of the new form.
C14_LegacySameURL ==
  (Returned("BuildDynatraceMetricsQuery") /\ args.form = "legacy") =>
     IF ReadAsNewForm
     THEN /\ out[1].url # NewFormURL
          /\ out[1].url = BuildDynatraceMetricsQuery(DashboardHandler, args.P,
                                                     args.startUnix, args.endUnix).url
     ELSE out[1].url = NewFormURL

\* C14 as stated: M?P and metricSelector=M&P compile to the same URL for
\* every M and P
C14_LegacySameURLAlways ==
  (Returned("BuildDynatraceMetricsQuery") /\ args.form = "legacy") =>
     out[1].url = NewFormURL

\* the legacy query of the response time with a scope, compiled
C14_Witness ==
  /\ Returned("BuildDynatraceMetricsQuery")
  /\ args.form = "legacy"
  /\ args.M = "builtin:service.response.time:merge(0):percentile(95)"
  /\ args.P = "scope=tag(foo)"
  /\ args.startUnix = 1000
  /\ out[1].url = "https://dt.local/api/v2/metrics/query/?entitySelector=tag%28foo%29%2Ctype%28SERVICE%29&from=1000&metricSelector=builtin%3Aservice.response.time%3Amerge%280%29%3Apercentile%2895%29&resolution=Inf&scope=tag%28foo%29&to=2000"

\* the scope value url.Values.Get finds in the input query
GivenScope == ValuesGet(GivenValues, "scope")

\* C15: when the query carries a non-empty scope, the URL carries, after any
\* entitySelector of the query, an entitySelector equal to the scope when the
\* scope contains type(SERVICE) and to the scope followed by ,type(SERVICE)
\* otherwise, and the scope stays; without a scope the entitySelector values
\* of the URL are those of the query.
C15_ScopeBecomesEntitySelector ==
  Returned("BuildDynatraceMetricsQuery") =>
     /\ ValuesOf(URLValues, "scope") = ValuesOf(GivenValues, "scope")
     /\ ValuesOf(URLValues, "entitySelector")
          = ValuesOf(GivenValues, "entitySelector")
              \o (IF GivenScope = "" THEN <<>>
                  ELSE IF Contains(GivenScope, "type(SERVICE)") THEN <<GivenScope>>
                  ELSE <<GivenScope \o ",type(SERVICE)">>)

\* a scope without type(SERVICE) next to an entitySelector
C15_Witness ==
  /\ Returned("BuildDynatraceMetricsQuery")
  /\ args.P = "entitySelector=type(HOST)&scope=tag(foo)"
  /\ ValuesOf(URLValues, "entitySelector") = <<"type(HOST)", "tag(foo),type(SERVICE)">>
  /\ ValuesOf(URLValues, "scope") = <<"tag(foo)">>

\* a scope with type(SERVICE), and a query without scope
C15_WitnessAsGiven ==
  /\ Returned("BuildDynatraceMetricsQuery")
  /\ \/ /\ args.P = "scope=type(SERVICE),tag(foo)"
        /\ ValuesOf(URLValues, "entitySelector") = <<"type(SERVICE),tag(foo)">>
     \/ /\ args.P = "entitySelector=type(HOST)"
        /\ ValuesOf(URLValues, "entitySelector") = <<"type(HOST)">>

(***************************************************************************)
(* The functions that read a metrics result, called on their own:          *)
(* isMatchingMetricID for pairs of metric ids and scaleData for metric     *)
(* ids, units and values.                                                  *)
(***************************************************************************)
\* the calls of isMatchingMetricID and of scaleData; the values include both
\* signs of the smallest float64 magnitude, 2^-1074
ResultCalls ==
  LET ids == {"", "a", "a:b", "a:c", "a~b", "a~b:c", "a~b:d:e", "a~c:b", ":a~", "b:a~"}
  IN  [fn : {"isMatchingMetricID"}, singleResultMetricID : ids, queryMetricID : ids]
        \cup [fn : {"scaleData"},
              metricID : {"", "builtin:service.response.time:merge(0):avg",
                          "builtin:host.mem.used",
                          "calc:builtin:service.response.time"},
              unit : {"", "MicroSecond", "Byte", "Count", "microsecond"},
              value : {Float(-4200000, 1), Float(-1, 1), Float(-1, 3), Zero, Float(1, 3),
                       Float(1024, 1), Float(4200000, 1),
                       [num |-> 1, den |-> 1, exp |-> -1074],
                       [num |-> -1, den |-> 1, exp |-> -1074]}]

InitResult ==
  /\ env = ""
  /\ Idle
  /\ args \in ResultCalls
  /\ out = <<>>

CallIsMatchingMetricID ==
  /\ out = <<>>
  /\ args.fn = "isMatchingMetricID"
  /\ out' = <<isMatchingMetricID(args.singleResultMetricID, args.queryMetricID)>>
  /\ UNCHANGED <<env, args, request>>

CallScaleData ==
  /\ out = <<>>
  /\ args.fn = "scaleData"
  /\ out' = <<scaleData(args.metricID, args.unit, args.value)>>
  /\ UNCHANGED <<env, args, request>>

NextResult == CallIsMatchingMetricID \/ CallScaleData

SpecResult == InitResult /\ [][NextResult]_vars

\* the part of a metric id before its first ":", the id itself when it has none
BeforeColon(id) ==
  LET i == Index(id, ":") IN IF i = 0 THEN id ELSE SubSeq(id, 1, i - 1)

\* C16: isMatchingMetricID is true exactly when the ids are equal, or the
\* response id contains "~" and the parts of both ids before their first ":"
\* are equal, an id without ":" being its own prefix.
C16_EqualOrSamePrefix ==
  Returned("isMatchingMetricID") =>
     (out[1] <=> \/ args.singleResultMetricID = args.queryMetricID
                 \/ /\ Contains(args.singleResultMetricID, "~")
                    /\ BeforeColon(args.singleResultMetricID) = BeforeColon(args.queryMetricID))

\* what the function does: the prefixes are compared only for a response id
\* that has a ":" as well
C16_PrefixNeedsColon ==
  Returned("isMatchingMetricID") =>
     (out[1] <=> \/ args.singleResultMetricID = args.queryMetricID
                 \/ /\ Contains(args.singleResultMetricID, "~")
                    /\ Contains(args.singleResultMetricID, ":")
                    /\ BeforeColon(args.singleResultMetricID) = BeforeColon(args.queryMetricID))

\* a response id with "~" and without ":" against an expected id with the same prefix
C16_WitnessNoColon ==
  /\ Returned("isMatchingMetricID")
  /\ args.singleResultMetricID = "a~b"
  /\ args.queryMetricID = "a~b:c"
  /\ out[1] = FALSE

\* the sign of a value as a comparison with 0 sees it
NonNegative(value) == value.num >= 0

\* the divisor scaleData is to apply
Divisor ==
  IF args.unit = "MicroSecond" \/ Contains(args.metricID, "builtin:service.response.time")
  THEN 1000
  ELSE IF args.unit = "Byte" THEN 1024 ELSE 1

\* C17: scaleData returns v/1000 when the unit is MicroSecond or the metric id
\* contains builtin:service.response.time, also when the unit is Byte, else
\* v/1024 when the unit is Byte, else v; the result is >= 0 when v >= 0, and a
\* negative v gives a negative result unless the quotient is too small for a
\* float64 and rounds to zero.
C17_ScaledByUnit ==
  Returned("scaleData") =>
     /\ out[1] = IF Divisor = 1 THEN args.value
                 ELSE IF "exp" \in DOMAIN args.value THEN Zero
                 ELSE Float(args.value.num, args.value.den * Divisor)
     /\ NonNegative(args.value) => NonNegative(out[1])
     /\ (~NonNegative(args.value) /\ NonNegative(out[1]))
          => ("exp" \in DOMAIN args.value /\ Divisor # 1 /\ out[1] = Zero)

\* C17 as stated: the result is >= 0 exactly when v >= 0
C17_SignKept ==
  Returned("scaleData") => (NonNegative(out[1]) <=> NonNegative(args.value))

\* the response time in bytes is divided by 1000
C17_Witness ==
  /\ Returned("scaleData")
  /\ args.unit = "Byte"
  /\ args.metricID = "builtin:service.response.time:merge(0):avg"
  /\ args.value = Float(4200000, 1)
  /\ out[1] = Float(4200, 1)

\* the negative smallest magnitude scaled is a zero
C17_WitnessUnderflow ==
  /\ Returned("scaleData")
  /\ args.unit = "MicroSecond"
  /\ ~NonNegative(args.value)
  /\ out[1] = Zero

(***************************************************************************)
(* The operations of the vendor client called on their own, each against   *)
(* the answers the vendor may give: no response, statuses other than 200   *)
(* with and without the error envelope in the body, and 200.               *)
(***************************************************************************)
\* the calls of the five operations
ClientCalls ==
  LET id == "ddb6a571-4bda-4e8b-a9c0-4a3e02c2e14a"
      name == "KQG;project=sockshop;service=carts;stage=dev"
      statuses == {400, 401, 404, 500, 503}
      failures == {[err |-> "dial tcp: connection refused", status |-> 0,
                    body |-> [valid |-> FALSE]]}
                    \cup {[err |-> NoErr, status |-> c, body |-> [valid |-> FALSE]] :
                            c \in statuses}
                    \cup {[err |-> NoErr, status |-> c,
                           body |-> [valid |-> TRUE,
                                     error |-> [code |-> c, message |-> "Vendor says no"]]] :
                            c \in statuses}
      ok(body) == [err |-> NoErr, status |-> 200, body |-> body]
  IN  [fn : {"ExecuteMetricAPIDescribe"},
       http : failures \cup {ok([valid |-> FALSE]), ok([valid |-> TRUE, unit |-> "MicroSecond"])}]
      \cup [fn : {"ExecuteMetricsAPIQuery", "ExecuteUSQLQuery"},
            http : failures \cup {a \in VendorAnswers : a.status = 200}]
      \cup [fn : {"findDynatraceDashboard"},
            list : failures
                     \cup {ok([valid |-> TRUE, dashboards |-> <<[id |-> id, name |-> name]>>])}]
      \cup [fn : {"loadDynatraceDashboard"}, dashboard : {id},
            list : {ok([valid |-> TRUE, dashboards |-> <<>>])},
            get : failures
                    \cup {ok([valid |-> TRUE,
                              dashboard |-> Dashboard(id, name, [isNil |-> TRUE])])}]

InitClient ==
  /\ env = ""
  /\ Idle
  /\ args \in ClientCalls
  /\ out = <<>>

CallExecuteMetricAPIDescribe ==
  /\ out = <<>>
  /\ args.fn = "ExecuteMetricAPIDescribe"
  /\ out' = <<ExecuteMetricAPIDescribe(args.http)>>
  /\ UNCHANGED <<env, args, request>>

CallExecuteMetricsAPIQuery ==
  /\ out = <<>>
  /\ args.fn = "ExecuteMetricsAPIQuery"
  /\ out' = <<ExecuteMetricsAPIQuery(args.http)>>
  /\ UNCHANGED <<env, args, request>>

CallExecuteUSQLQuery ==
  /\ out = <<>>
  /\ args.fn = "ExecuteUSQLQuery"
  /\ out' = <<ExecuteUSQLQuery(args.http)>>
  /\ UNCHANGED <<env, args, request>>

NextClient ==
  \/ CallExecuteMetricAPIDescribe
  \/ CallExecuteMetricsAPIQuery
  \/ CallExecuteUSQLQuery
  \/ CallFindDynatraceDashboard
  \/ CallLoadDynatraceDashboard

SpecClient == InitClient /\ [][NextClient]_vars

\* the answer the operation of the call received
ClientResponse ==
  IF args.fn = "findDynatraceDashboard" THEN args.list
  ELSE IF args.fn = "loadDynatraceDashboard" THEN args.get
  ELSE args.http

\* a response came back with a status other than 200
NonOKResponse == out # <<>> /\ ClientResponse.err = NoErr /\ ClientResponse.status # 200

\* the operation returned no result
EmptyResult ==
  IF args.fn = "findDynatraceDashboard" THEN out[1].id = ""
  ELSE IF args.fn = "loadDynatraceDashboard" THEN out[1].dashboardJSON.isNil
  ELSE out[1].isNil

\* the error carries the vendor code and message of the envelope, the status
\* code when the body has no envelope
CarriesVendorError(err, http) ==
  IF "error" \in DOMAIN http.body
  THEN /\ Contains(err, ToString(http.body.error.code))
       /\ Contains(err, http.body.error.message)
  ELSE Contains(err, ToString(http.status))

\* C18: every operation of the vendor client that receives a response with a
\* status other than 200 fails with an error that carries the vendor code and
\* message of the error envelope, the status code when the body has none; no
\* operation returns an empty result with no error.
C18_NonOKFailsWithVendorError ==
  NonOKResponse =>
     /\ out[1].err # NoErr
     /\ CarriesVendorError(out[1].err, ClientResponse)

\* what the operations return for such a response: a fixed text from the
\* metrics operations and from the dashboard fetch, no error from the USQL
\* query and from the dashboard list, always without a result
C18_NonOKResults ==
  NonOKResponse =>
     /\ EmptyResult
     /\ out[1].err = IF args.fn \in {"ExecuteMetricAPIDescribe", "ExecuteMetricsAPIQuery"}
                     THEN "No valid response from metrics api!"
                     ELSE IF args.fn = "loadDynatraceDashboard"
                     THEN "No valid response came back"
                     ELSE NoErr

\* a USQL query answered with 503 and the error envelope returns nil, nil
C18_WitnessNoError ==
  /\ Returned("ExecuteUSQLQuery")
  /\ args.http.status = 503
  /\ "error" \in DOMAIN args.http.body
  /\ out[1].isNil
  /\ out[1].err = NoErr

\* the placeholder tokens the request of the call recognises
Tokens ==
  {"$CONTEXT", "$EVENT", "$SOURCE", "$PROJECT", "$STAGE", "$SERVICE", "$DEPLOYMENT",
   "$TESTSTRATEGY"}
    \cup {"$LABEL." \o args.Labels[i].key : i \in 1..Len(args.Labels)}
    \cup {"$" \o args.CustomFilters[i].Key : i \in 1..Len(args.CustomFilters)}
    \cup {"$" \o ToUpper(args.CustomFilters[i].Key) : i \in 1..Len(args.CustomFilters)}

\* the value of a label or custom filter token of the request
TokenValue(token) ==
  IF \E i \in 1..Len(args.Labels) : token = "$LABEL." \o args.Labels[i].key
  THEN (CHOOSE l \in {args.Labels[i] : i \in 1..Len(args.Labels)} :
          token = "$LABEL." \o l.key).value
  ELSE (CHOOSE f \in {args.CustomFilters[i] : i \in 1..Len(args.CustomFilters)} :
          token \in {"$" \o f.Key, "$" \o ToUpper(f.Key)}).Value

\* the query of the call is a token that has a shorter token as its prefix
LongerToken ==
  /\ args.query \in Tokens
  /\ \E t \in Tokens : t # args.query /\ HasPrefix(args.query, t)

\* C19: after replaceQueryParameters the query contains none of the tokens
\* the request recognises, and a token that has a shorter token as its prefix
\* is replaced by its own value.
C19_AllTokensExpanded ==
  Returned("replaceQueryParameters") =>
     /\ \A t \in Tokens : ~Contains(out[1].query, t)
     /\ LongerToken => out[1].query = TokenValue(args.query)

\* the custom filter svcname consumed by the filter svc that precedes it
C19_WitnessConsumed ==
  /\ Returned("replaceQueryParameters")
  /\ args.query = "$svcname"
  /\ args.CustomFilters = <<[Key |-> "svc", Value |-> "x"], [Key |-> "svcname", Value |-> "y"]>>
  /\ out[1].query = "xname"

\* the placeholders of the request expanded
C19_WitnessExpanded ==
  /\ Returned("replaceQueryParameters")
  /\ args.query = "tag(keptn_project:$PROJECT),tag(keptn_stage:$STAGE),tag($LABEL.a)"
  /\ out[1].query = "tag(keptn_project:sockshop),tag(keptn_stage:dev),tag(1)"

(***************************************************************************)
(* BuildDynatraceMetricsQuery for queries with more than one "?": the      *)
(* three forms of a query over parameter strings that hold "?" themselves. *)
(***************************************************************************)
\* the calls of BuildDynatraceMetricsQuery
SplitCalls ==
  [fn : {"BuildDynatraceMetricsQuery"},
   form : {"legacy", "new", "?new"},
   M : {"builtin:service.response.time:merge(0):avg", "foo", ""},
   P : {"", "bar=baz", "bar=baz?x=y", "scope=tag(foo)?resolution=1h", "a=1?b=2?c=3",
        "bar=baz?", "?x=y"},
   startUnix : {1000},
   endUnix : {2000}]

InitSplit ==
  /\ env = ""
  /\ Idle
  /\ args \in SplitCalls
  /\ out = <<>>

NextSplit == CallBuildDynatraceMetricsQuery

SpecSplit == InitSplit /\ [][NextSplit]_vars

\* the query of the call after line 578 took a leading "?" off
QueryRead ==
  IF HasPrefix(MetricQuery(args.form, args.M, args.P), "?metricSelector=")
  THEN Replace(MetricQuery(args.form, args.M, args.P), "?metricSelector=", "metricSelector=", 1)
  ELSE MetricQuery(args.form, args.M, args.P)

\* the text before the first "?" of the query and the text after it
BeforeFirst == SubSeq(QueryRead, 1, Index(QueryRead, "?") - 1)
AfterFirst == SubSeq(QueryRead, Index(QueryRead, "?") + 1, Len(QueryRead))

\* what the function returns for the selector and the parameters
BuiltFrom(selector, parameters) ==
  BuildForTargetURL(DashboardHandler.ApiURL \o "/api/v2/metrics/query/?metricSelector="
                      \o selector \o "&" \o parameters,
                    <<selector, parameters>>, args.startUnix, args.endUnix,
                    DashboardHandler.CustomFilters)

\* C23 (as stated): BuildDynatraceMetricsQuery splits the query at its first
\* "?" only: the text before it is the legacy metricSelector and everything
\* after it, later "?" and the text after them included, is kept as the
\* query parameters
C23_SplitAtFirstOnly ==
  (Returned("BuildDynatraceMetricsQuery") /\ Contains(QueryRead, "?")) =>
     /\ out[1].url = BuiltFrom(BeforeFirst, AfterFirst).url
     /\ out[1].metricSelector = BuiltFrom(BeforeFirst, AfterFirst).metricSelector

\* the function keeps the text before the first "?" and the text between
\* the first and the second
C23_SecondPartOnly ==
  (Returned("BuildDynatraceMetricsQuery") /\ Contains(QueryRead, "?")) =>
     /\ out[1].url = BuiltFrom(BeforeFirst, Split(AfterFirst, "?")[1]).url
     /\ out[1].metricSelector = BuiltFrom(BeforeFirst, Split(AfterFirst, "?")[1]).metricSelector

\* the query foo?a=1?b=2?c=3 gave a URL with a=1 and neither b=2 nor c=3
C23_WitnessDropped ==
  /\ Returned("BuildDynatraceMetricsQuery")
  /\ args.form = "legacy" /\ args.M = "foo" /\ args.P = "a=1?b=2?c=3"
  /\ out[1].metricSelector = "foo"
  /\ Contains(out[1].url, "?a=1&from=")
  /\ ~Contains(out[1].url, "b=2") /\ ~Contains(out[1].url, "c=3")

(***************************************************************************)
(* The aggregators of one series of a custom chart (lines 963-1047), for   *)
(* metrics of 0 to MaxDimensions dimensions and series that keep some of   *)
(* them.                                                                   *)
(***************************************************************************)
\* the most dimensions of a metric
MaxDimensions == 3

\* the dimensions a series may name: by the index of a dimension of the
\* metric, with and without a filter value, and by an id that is no index
SeriesDimensionsGiven ==
  {[ID |-> "0", Name |-> "dt.entity.service", Values |-> <<>>, EntityDimension |-> TRUE],
   [ID |-> "1", Name |-> "Dimension", Values |-> <<"GET">>, EntityDimension |-> FALSE],
   [ID |-> "2", Name |-> "dt.entity.host", Values |-> <<>>, EntityDimension |-> TRUE],
   [ID |-> "01", Name |-> "Dimension", Values |-> <<>>, EntityDimension |-> FALSE],
   [ID |-> "", Name |-> "", Values |-> <<>>, EntityDimension |-> FALSE]}

\* the series and the metric definitions of the calls
SeriesCalls ==
  [fn : {"SeriesAggregators"},
   series : {[ChartSeriesGiven.merged EXCEPT !.Dimensions = d] :
               d \in SeqsUpTo(SeriesDimensionsGiven, 2)},
   metricDefinition :
     {[err |-> NoErr, MetricID |-> "builtin:service.response.time", Unit |-> "MicroSecond",
       DefaultAggregation |-> [Type |-> "AVG"], EntityType |-> <<"SERVICE">>,
       DimensionDefinitions |-> [i \in 1..n |-> [Name |-> "dimension" \o ToString(i - 1)]]] :
        n \in 0..MaxDimensions}]

InitSeries ==
  /\ env = ""
  /\ Idle
  /\ args \in SeriesCalls
  /\ out = <<>>

\* lines 963-1047 for one series of the tile "Response time": the
\* aggregators and the metricQuery built with them
CallSeriesAggregators ==
  /\ out = <<>>
  /\ args.fn = "SeriesAggregators"
  /\ out' = <<[aggregators |-> SeriesAggregators(args.series, args.metricDefinition),
               metricQuery |-> SeriesQuery(TilesGiven.chart, args.series, args.metricDefinition,
                                           ",mzId(mz-1)",
                                           SeriesAggregators(args.series, args.metricDefinition))]>>
  /\ UNCHANGED <<env, args, request>>

NextSeries == CallSeriesAggregators

SpecSeries == InitSeries /\ [][NextSeries]_vars

\* the indices of the dimensions of the metric that are the id of no
\* dimension of the series
MergedIndices ==
  {i \in 0..(Len(args.metricDefinition.DimensionDefinitions) - 1) :
     \A d \in 1..Len(args.series.Dimensions) : args.series.Dimensions[d].ID # ToString(i)}

\* C24: the merge aggregator of a series is the concatenation of :merge(i),
\* i going from the last dimension of the metric down to 0, for exactly the
\* indices that are the id of no dimension of the series: every such index
\* is merged, no other text is in it, a higher index comes before a lower
\* one, and it is empty when every index is kept; the metric query carries
\* it right after the metric
C24_MergeOfUnkeptDescending ==
  Returned("SeriesAggregators") =>
    LET merge == out[1].aggregators.mergeAggregator
    IN  /\ \A i \in 0..(Len(args.metricDefinition.DimensionDefinitions) - 1) :
             Contains(merge, ":merge(" \o ToString(i) \o ")") <=> i \in MergedIndices
        /\ Len(merge) = Len(":merge(0)") * Cardinality(MergedIndices)
        /\ \A i, j \in MergedIndices :
             i < j => Index(merge, ":merge(" \o ToString(j) \o ")")
                        < Index(merge, ":merge(" \o ToString(i) \o ")")
        /\ MergedIndices = {} => merge = ""
        /\ HasPrefix(out[1].metricQuery,
                     "metricSelector=" \o args.series.Metric \o merge
                       \o out[1].aggregators.filterAggregator \o ":avg:names&")

\* a metric of three dimensions charted by its dimension 1: 2 and 0 merged
C24_Witness ==
  /\ Returned("SeriesAggregators")
  /\ Len(args.metricDefinition.DimensionDefinitions) = 3
  /\ Len(args.series.Dimensions) = 1 /\ args.series.Dimensions[1].ID = "1"
  /\ out[1].aggregators.mergeAggregator = ":merge(2):merge(0)"
  /\ HasPrefix(out[1].metricQuery,
               "metricSelector=builtin:service.response.time:merge(2):merge(0):filter(eq(Dimension,GET)):avg:names")

\* every dimension of the metric is charted: nothing is merged
C24_WitnessAllKept ==
  /\ Returned("SeriesAggregators")
  /\ Len(args.metricDefinition.DimensionDefinitions) = 2
  /\ MergedIndices = {}
  /\ out[1].aggregators.mergeAggregator = ""

\* an id that is not the decimal text of an index keeps no dimension
C24_WitnessNoIndex ==
  /\ Returned("SeriesAggregators")
  /\ Len(args.series.Dimensions) = 1 /\ args.series.Dimensions[1].ID = "01"
  /\ out[1].aggregators.mergeAggregator = ":merge(1):merge(0)"

(***************************************************************************)
(* Dashboards whose custom charts fail: charts of one and of two series    *)
(* and a USQL tile, against a vendor that refuses the metrics query,       *)
(* answers it with 404, with an unreadable body, with no result, with a    *)
(* result without data or with values, or does not know the metric.        *)
(***************************************************************************)
\* the tiles of the dashboards of FailedCalls
FailedTilesGiven ==
  {TilesGiven.chart,
   DashboardTile("CUSTOM_CHARTING", "", "", "", "", "Both;sli=pair;pass=<500;warning=<800;key=true",
                 <<ChartSeriesGiven.merged, ChartSeriesGiven.split>>),
   TilesGiven.single}

\* the calls of QueryDynatraceDashboardForSLIs for these dashboards
FailedCalls ==
  LET dashboards ==
        {[Dashboard("ddb6a571-4bda-4e8b-a9c0-4a3e02c2e14a",
                    "KQG;project=sockshop;service=carts;stage=dev",
                    [isNil |-> FALSE,
                     ManagementZone |-> [isNil |-> FALSE, ID |-> "mz-1", Name |-> ""]])
            EXCEPT !.Tiles = t] : t \in SeqsUpTo(FailedTilesGiven, MaxTiles) \ {<<>>}}
      ok(body) == [err |-> NoErr, status |-> 200, body |-> body]
      described == ok([valid |-> TRUE, metricId |-> "builtin:service.response.time",
                       unit |-> "MicroSecond", defaultAggregation |-> [Type |-> "AVG"],
                       dimensionDefinitions |-> <<[Name |-> "dt.entity.service"]>>,
                       entityType |-> <<"SERVICE">>])
      values == ok([valid |-> TRUE,
                    result |-> <<[metricId |-> "builtin:service.response.time:merge(0):avg:names",
                                  data |-> <<[dimensions |-> <<>>,
                                              values |-> <<Float(1000, 1)>>]>>]>>])
      noData == ok([valid |-> TRUE,
                    result |-> <<[metricId |-> "builtin:service.response.time:merge(0):avg:names",
                                  data |-> <<>>]>>])
      noResult == ok([valid |-> TRUE, result |-> <<>>])
      unreadable == ok([valid |-> FALSE])
      refused == [err |-> "dial tcp: connection refused", status |-> 0,
                  body |-> [valid |-> FALSE]]
      count == ok([valid |-> TRUE, values |-> <<<<[num |-> Float(10, 1)]>>>>])
  IN  [fn : {"QueryDynatraceDashboardForSLIs"},
       dashboard : {"ddb6a571-4bda-4e8b-a9c0-4a3e02c2e14a"},
       existing : {[err |-> "resource not found", content |-> ""]},
       list : {NotFound},
       get : {ok([valid |-> TRUE, dashboard |-> d]) : d \in dashboards},
       vendor : {[describe |-> described, metrics |-> m, usql |-> count] :
                   m \in {values, noData, noResult, unreadable, refused, NotFound}}
                \cup {[describe |-> NotFound, metrics |-> values, usql |-> count]}]

InitFailed ==
  /\ env = ""
  /\ Idle
  /\ args \in FailedCalls
  /\ out = <<>>

NextFailed == CallQueryDynatraceDashboardForSLIs

SpecFailed == InitFailed /\ [][NextFailed]_vars

\* the indicator name of the title of a tile
BaseIndicatorName(tile) ==
  ParsePassAndWarningFromString(TileTitle(tile), <<>>, <<>>).sliName

\* the compile of the dashboard of the call with the tile alone
CompiledAlone(tile) ==
  Compiled(QueryDynatraceDashboardForSLIs(
             DashboardHandler, KeptnEvent, args.dashboard, RequestContext.Start,
             RequestContext.End, args.existing, args.list,
             [args.get EXCEPT !.body.dashboard.Tiles = <<tile>>], args.vendor))

\* the SLIResult of a failed series
FailedResult(tile) ==
  [Metric |-> BaseIndicatorName(tile), Value |-> Zero, Success |-> FALSE,
   Message |-> ExecuteMetricsAPIQuery(args.vendor.metrics).err]

\* the metrics query of the vendor failed: the request, the status, the
\* body, or a result list that is empty
MetricsQueryFailed == ExecuteMetricsAPIQuery(args.vendor.metrics).err # NoErr

\* the metric of the series was described
MetricDescribed == ExecuteMetricAPIDescribe(args.vendor.describe).err = NoErr

\* the metrics query was answered with results none of which has data
AnsweredWithoutData ==
  /\ ~MetricsQueryFailed
  /\ \A i \in 1..Len(args.vendor.metrics.body.result) :
       args.vendor.metrics.body.result[i].data = <<>>

\* the SLIResults of the tiles, tile after tile, the series of the custom
\* charts giving perSeries(tile) each
ResultsWithSeries(perSeries(_)) ==
  Flatten([i \in 1..Len(TilesAnswered) |->
             IF TilesAnswered[i].TileType = "CUSTOM_CHARTING"
             THEN Flatten([k \in 1..Len(TilesAnswered[i].FilterConfig.ChartConfig.Series) |->
                             perSeries(TilesAnswered[i])])
             ELSE CompiledAlone(TilesAnswered[i]).sliResults])

OneFailedResult(tile) == <<FailedResult(tile)>>

NoResult(tile) == <<>>

\* C25 (as stated): a series of a custom chart that fails, the vendor giving
\* an error (for the metric's definition or for the metrics query) or no
\* data, gives exactly one SLIResult with the base name, the value 0,
\* success false and the error as message, and the tiles after it are
\* compiled
C25_FailedSeriesGiveOneResult ==
  (/\ Returned("QueryDynatraceDashboardForSLIs")
   /\ ~MetricDescribed \/ MetricsQueryFailed \/ AnsweredWithoutData) =>
     out[1].sliResults = ResultsWithSeries(OneFailedResult)

\* C25: a series whose metric was described and whose metrics query fails
\* (ExecuteMetricsAPIQuery returns an error: the request failed, the status
\* is not 200, the body is unreadable or the result list is empty) gives
\* exactly one SLIResult with the base name, the value 0, success false and
\* the error as message; the base query is recorded under the base name and
\* compiles to the URL that was asked; the series and the tiles after it
\* are compiled.  A series whose metric was not described, or whose results
\* have no data, gives no SLIResult
C25_FailedQueryGivesOneResult ==
  Returned("QueryDynatraceDashboardForSLIs") =>
    /\ (MetricDescribed /\ MetricsQueryFailed) =>
         /\ out[1].sliResults = ResultsWithSeries(OneFailedResult)
         /\ \A i \in 1..Len(TilesAnswered) :
              TilesAnswered[i].TileType = "CUSTOM_CHARTING" =>
                /\ BaseIndicatorName(TilesAnswered[i]) \in DOMAIN out[1].dashboardSLI.Indicators
                /\ \E c \in 1..Len(out[1].calls) :
                     /\ out[1].calls[c].api = "metrics"
                     /\ out[1].calls[c].arg =
                          BuildDynatraceMetricsQuery(
                            DashboardHandler,
                            out[1].dashboardSLI.Indicators[BaseIndicatorName(TilesAnswered[i])],
                            RequestContext.Start, RequestContext.End).url
         /\ Len(SelectSeq(out[1].calls, LAMBDA c : c.api = "metrics"))
              = Len(ResultsWithSeries(OneFailedResult))
                  - Len(SelectSeq(TilesAnswered, LAMBDA tile : tile.TileType = "DTAQL"))
    /\ (~MetricDescribed \/ AnsweredWithoutData) =>
         out[1].sliResults = ResultsWithSeries(NoResult)

\* a chart of two series whose metrics queries were refused, before a USQL
\* tile: two failed results for "pair", then the result of the USQL tile
C25_Witness ==
  /\ Returned("QueryDynatraceDashboardForSLIs")
  /\ args.vendor.metrics.err = "dial tcp: connection refused"
  /\ Len(TilesAnswered) = 2 /\ TilesAnswered[2].TileType = "DTAQL"
  /\ Len(out[1].sliResults) = 3
  /\ \A i \in 1..2 :
       out[1].sliResults[i] = [Metric |-> "pair", Value |-> Zero, Success |-> FALSE,
                               Message |-> "dial tcp: connection refused"]
  /\ out[1].sliResults[3].Success /\ out[1].sliResults[3].Metric = "sessions"
  /\ out[1].dashboardSLI.Indicators["pair"]
       = "metricSelector=builtin:service.response.time:percentile(95.000000):names&entitySelector=type(SERVICE),tag(\"keptn\"),mzId(mz-1)"

\* the vendor answered the metrics query with a result without data: the
\* chart gave no SLIResult
C25_WitnessNoData ==
  /\ Returned("QueryDynatraceDashboardForSLIs")
  /\ AnsweredWithoutData /\ MetricDescribed
  /\ Len(TilesAnswered) = 1 /\ TilesAnswered[1].TileType = "CUSTOM_CHARTING"
  /\ out[1].sliResults = <<>> /\ out[1].err = NoErr
  /\ \E c \in 1..Len(out[1].calls) : out[1].calls[c].api = "metrics"

\* the vendor does not know the metric: the chart gave no SLIResult
C25_WitnessNotDescribed ==
  /\ Returned("QueryDynatraceDashboardForSLIs")
  /\ ~MetricDescribed
  /\ Len(TilesAnswered) = 1 /\ TilesAnswered[1].TileType = "CUSTOM_CHARTING"
  /\ out[1].sliResults = <<>>
  /\ \A c \in 1..Len(out[1].calls) : out[1].calls[c].api # "metrics"

(***************************************************************************)
(* GetSLIValue for the indicator "sli" of a custom query map, over USQL    *)
(* queries of every tile type and dimension against rows of one, two and   *)
(* three cells.                                                            *)
(***************************************************************************)
\* the tile types and the dimensions of the USQL queries of the calls
UsqlTileTypes == {"SINGLE_VALUE", "PIE_CHART", "COLUMN_CHART", "TABLE", "LINE_CHART", ""}
UsqlDimensions == {"", "Firefox", "Safari"}

\* the answers of the vendor to a USQL query: rows of one cell, of two and
\* of three cells, two rows of one dimension, a row without a dimension
\* name, rows whose cells are not of the types read, no row, no answer
UsqlAnswersGiven ==
  LET ok(rows) == [err |-> NoErr, status |-> 200, body |-> [valid |-> TRUE, values |-> rows]]
      s(x) == [str |-> x]
      n(x, y) == [num |-> Float(x, y)]
  IN  {ok(<< <<n(10, 1)>> >>),
       ok(<< <<n(10, 1)>>, <<n(11, 1)>> >>),
       ok(<< <<s("Chrome"), n(1, 1)>>, <<s("Firefox"), n(5, 2)>> >>),
       ok(<< <<s("Chrome"), n(3, 1), n(1, 1)>>, <<s("Firefox"), n(4, 1), n(5, 2)>> >>),
       ok(<< <<s("Firefox"), n(1, 1)>>, <<s("Chrome"), n(7, 1)>>, <<s("Firefox"), n(2, 1)>> >>),
       ok(<< <<s(""), n(9, 1)>> >>),
       ok(<< <<s("Firefox")>> >>),
       ok(<< <<n(1, 1), n(2, 1)>> >>),
       ok(<<>>),
       [err |-> "dial tcp: connection refused", status |-> 0, body |-> [valid |-> FALSE]]}

\* the metric selectors of the metrics queries of the calls
SelectorsGiven ==
  {"builtin:service.requestCount.total:merge(0):sum",
   "builtin:host.mem.used:merge(0):avg:names",
   "builtin:service.response.time:merge(0):avg:names"}

\* the metrics queries: plain, and MV2 with the units Byte and MicroSecond
MetricQueriesGiven ==
  {"metricSelector=builtin:service.requestCount.total:merge(0):sum&entitySelector=type(SERVICE)",
   "MV2;Byte;metricSelector=builtin:host.mem.used:merge(0):avg:names&entitySelector=type(HOST)",
   "MV2;MicroSecond;metricSelector=builtin:service.response.time:merge(0):avg:names&entitySelector=type(SERVICE)"}

\* the most results of a metrics answer
MaxResults == 2

\* the answers of the vendor to a metrics query: up to MaxResults results
\* for the selectors, each with no data entry, with one entry of two values
\* or of none, or with two entries; no result; no answer
MetricAnswersGiven ==
  LET entry(values) == [dimensions |-> <<>>, values |-> values]
      datas == {<<>>, <<entry(<<Float(2048, 1), Float(7, 1)>>)>>, <<entry(<<>>)>>,
                <<entry(<<Float(2048, 1)>>), entry(<<Float(7, 1)>>)>>}
  IN  {[err |-> NoErr, status |-> 200, body |-> [valid |-> TRUE, result |-> r]] :
         r \in SeqsUpTo([metricId : SelectorsGiven, data : datas], MaxResults)}
      \cup {[err |-> "dial tcp: connection refused", status |-> 0, body |-> [valid |-> FALSE]],
             [err |-> NoErr, status |-> 503, body |-> [valid |-> FALSE]]}

\* the calls of GetSLIValue
ValueCalls ==
  [fn : {"GetSLIValue"},
   CustomQueries : {("sli" :> ("USQL;" \o t \o ";" \o d
                                 \o ";SELECT useragent,AVG(duration) FROM usersession")) :
                      t \in UsqlTileTypes, d \in UsqlDimensions},
   metric : {"sli"},
   http : UsqlAnswersGiven]
  \cup [fn : {"GetSLIValue"},
        CustomQueries : {("sli" :> q) : q \in MetricQueriesGiven},
        metric : {"sli"},
        http : MetricAnswersGiven]

InitValue ==
  /\ env = ""
  /\ Idle
  /\ args \in ValueCalls
  /\ out = <<>>

NextValue == CallGetSLIValue

SpecValue == InitValue /\ [][NextValue]_vars

\* the parts of the query of the indicator of the call
QueryParts == Split(args.CustomQueries[args.metric], ";")

\* the rows of the answer of the vendor
RowsAnswered ==
  IF args.http.err = NoErr /\ args.http.status = 200 /\ args.http.body.valid
  THEN Field(args.http.body, "values", <<>>) ELSE <<>>

\* the cell of a row that holds its value for the tile type
ValueCell(row, tileType) ==
  IF tileType = "SINGLE_VALUE" THEN 1
  ELSE IF tileType = "TABLE" THEN Len(row)
  ELSE 2

\* the cells of the row have the types the tile type is read with
WellTyped(row, tileType) ==
  /\ Len(row) >= (IF tileType \in {"PIE_CHART", "COLUMN_CHART"} THEN 2 ELSE 1)
  /\ tileType # "SINGLE_VALUE" => IsStr(row[1])
  /\ IsNum(row[ValueCell(row, tileType)])

\* the dimension of a row for the tile type
RowDimension(row, tileType) == IF tileType = "SINGLE_VALUE" THEN "" ELSE row[1].str

\* the rows of the answer that have the dimension of the query
RowsOfDimension ==
  {i \in 1..Len(RowsAnswered) : RowDimension(RowsAnswered[i], QueryParts[2]) = QueryParts[3]}

\* the last of a set of row numbers
LastOf(S) == CHOOSE i \in S : \A j \in S : j <= i

C26_WitnessNoRow ==
  /\ Returned("GetSLIValue")
  /\ QueryParts[2] = "PIE_CHART" /\ QueryParts[3] = "Safari"
  /\ Len(RowsAnswered) = 2
  /\ out[1].value.err = "Not able to query identifier sli from Dynatrace"
  /\ out[1].value.value = Zero

\* a tile type that is none of the four: the same error
C26_WitnessOtherType ==
  /\ Returned("GetSLIValue")
  /\ QueryParts[2] = "LINE_CHART" /\ QueryParts[3] = ""
  /\ Len(RowsAnswered) = 1 /\ Len(RowsAnswered[1]) = 1
  /\ out[1].value.err = "Not able to query identifier sli from Dynatrace"

\* SINGLE_VALUE with two rows: the value of the last row
C26_WitnessSingle ==
  /\ Returned("GetSLIValue")
  /\ QueryParts[2] = "SINGLE_VALUE" /\ QueryParts[3] = ""
  /\ Len(RowsAnswered) = 2 /\ Len(RowsAnswered[1]) = 1
  /\ out[1].value.err = NoErr /\ out[1].value.value = Float(11, 1)

\* a row whose first cell is no number read as SINGLE_VALUE: a panic
C26_WitnessPanic ==
  /\ Returned("GetSLIValue")
  /\ QueryParts[2] = "SINGLE_VALUE"
  /\ Len(RowsAnswered) = 1 /\ ~WellTyped(RowsAnswered[1], "SINGLE_VALUE")
  /\ out[1].value.panic

\* the unit and the metric selector of the metrics query of the call
UnitRead == IF HasPrefix(args.CustomQueries[args.metric], "MV2;") THEN QueryParts[2] ELSE ""
SelectorRead ==
  CHOOSE m \in SelectorsGiven : Contains(args.CustomQueries[args.metric], "=" \o m \o "&")

\* the results of the answer of the vendor
ResultsAnswered ==
  IF args.http.err = NoErr /\ args.http.status = 200 /\ args.http.body.valid
  THEN Field(args.http.body, "result", <<>>) ELSE <<>>

\* the results of the answer whose metricId matches the selector
ResultsMatching ==
  {i \in 1..Len(ResultsAnswered) :
     isMatchingMetricID(ResultsAnswered[i].metricId, SelectorRead)}

\* the first of a set of result numbers
FirstOf(S) == CHOOSE i \in S : \A j \in S : i <= j

\* GetSLIValue returned a value and no error
ValueReturned == out[1].value.err = NoErr /\ ~out[1].value.panic

\* C30: for a metrics query, plain or MV2, GetSLIValue returns a value only
\* when a result of the answer matches the metric selector and the first
\* such result has exactly one data entry, and the value is then the first
\* value of that entry scaled by the unit; when the first matching result
\* has no or several data entries, and when no result matches, it returns
\* an error and the value 0
C30_ValueOfFirstMatchingResult ==
  (Returned("GetSLIValue") /\ ~HasPrefix(args.CustomQueries[args.metric], "USQL;")) =>
    /\ ValueReturned =>
         /\ ResultsMatching # {}
         /\ Len(ResultsAnswered[FirstOf(ResultsMatching)].data) = 1
         /\ out[1].value.value
              = scaleData(SelectorRead, UnitRead,
                          ResultsAnswered[FirstOf(ResultsMatching)].data[1].values[1])
    /\ (ResultsMatching # {}
          /\ Len(ResultsAnswered[FirstOf(ResultsMatching)].data) = 1
          /\ ResultsAnswered[FirstOf(ResultsMatching)].data[1].values # <<>>)
         => ValueReturned
    /\ (ResultsMatching = {} \/ Len(ResultsAnswered[FirstOf(ResultsMatching)].data) # 1)
         => (out[1].value.err # NoErr /\ ~out[1].value.panic /\ out[1].value.value = Zero)

\* an MV2 query in Byte answered with a result for another metric and then
\* the result for its own with one entry of two values: 2048 / 1024
C30_Witness ==
  /\ Returned("GetSLIValue")
  /\ UnitRead = "Byte"
  /\ Len(ResultsAnswered) = 2 /\ ResultsMatching = {2}
  /\ Len(ResultsAnswered[2].data) = 1 /\ Len(ResultsAnswered[2].data[1].values) = 2
  /\ ValueReturned /\ out[1].value.value = Float(2, 1)

\* the first matching result has two entries and the second one: an error
C30_WitnessSeveralEntries ==
  /\ Returned("GetSLIValue")
  /\ ResultsMatching = {1, 2}
  /\ Len(ResultsAnswered[1].data) = 2 /\ Len(ResultsAnswered[2].data) = 1
  /\ HasPrefix(out[1].value.err, "Dynatrace Metrics API returned 2 result values, expected 1.")

\* the first matching result has no entry
C30_WitnessNoEntry ==
  /\ Returned("GetSLIValue")
  /\ ResultsMatching # {} /\ ResultsAnswered[FirstOf(ResultsMatching)].data = <<>>
  /\ HasPrefix(out[1].value.err, "Dynatrace Metrics API returned 0 result values, expected 1.")

\* no result matches
C30_WitnessNoMatch ==
  /\ Returned("GetSLIValue")
  /\ ResultsAnswered # <<>> /\ ResultsMatching = {}
  /\ out[1].value.err = "Not able to query identifier sli from Dynatrace"

\* one entry without a value: a panic
C30_WitnessNoValue ==
  /\ Returned("GetSLIValue")
  /\ ResultsMatching # {}
  /\ Len(ResultsAnswered[FirstOf(ResultsMatching)].data) = 1
  /\ ResultsAnswered[FirstOf(ResultsMatching)].data[1].values = <<>>
  /\ out[1].value.panic

(***************************************************************************)
(* The request over the query compilations of one handler: the custom      *)
(* filters of the handler are the SLIFilter objects of the request (a      *)
(* slice of pointers), its KeptnEvent holds the labels, the project, the   *)
(* stage and the service of the request.  out holds them as they are       *)
(* after the compilations made so far.                                     *)
(***************************************************************************)
\* the most compilations of a request
MaxCompilations == 2

\* the requests: labels and custom filters as received
FrameCalls ==
  [fn : {"compile"},
   Labels : {<<>>, <<[key |-> "a", value |-> "1"]>>,
             <<[key |-> "a", value |-> "1"], [key |-> "ab", value |-> "2"]>>},
   CustomFilters : {<<>>,
                    <<[Key |-> "svc", Value |-> "x"]>>,
                    <<[Key |-> "tier", Value |-> "'front'"]>>,
                    <<[Key |-> "svc", Value |-> "x"], [Key |-> "tier", Value |-> "\"back\""]>>}]

\* the queries compiled
FrameQueriesGiven ==
  [metrics |-> {"metricSelector=builtin:service.response.time:merge(0):avg&entitySelector=type(SERVICE),tag($tier)",
                "builtin:service.requestCount.total:merge(0):sum?scope=tag(keptn_project:$PROJECT),tag($LABEL.a)",
                "metricSelector=builtin:host.cpu.usage:merge(0):avg"},
   usql |-> {"SELECT count(*) FROM usersession WHERE tier = '$tier'",
             "SELECT browserFamily, count(*) FROM usersession WHERE app = '$SERVICE'",
             "SELECT count(*) FROM usersession"}]

InitFrame ==
  /\ env = ""
  /\ Idle
  /\ args \in FrameCalls
  /\ out = <<>>

\* the custom filters and the compilations made so far
FiltersNow == IF out = <<>> THEN args.CustomFilters ELSE out[1].CustomFilters
CompiledNow == IF out = <<>> THEN 0 ELSE out[1].compiled

\* the handler of the request
FrameHandler ==
  NewDynatraceHandler("https://dt.local", [KeptnEvent EXCEPT !.Labels = args.Labels],
                      <<>>, FiltersNow, <<>>)

\* the request after a compilation that gave b
Compiled1(ph, b) ==
  [CustomFilters |-> b.CustomFilters, KeptnEvent |-> ph.KeptnEvent,
   compiled |-> CompiledNow + 1, url |-> b.url]

CompileMetricsQuery ==
  /\ args.fn = "compile"
  /\ CompiledNow < MaxCompilations
  /\ \E q \in FrameQueriesGiven.metrics :
       out' = <<Compiled1(FrameHandler,
                          BuildDynatraceMetricsQuery(FrameHandler, q, RequestContext.Start,
                                                     RequestContext.End))>>
  /\ UNCHANGED <<env, args, request>>

CompileUSQLQuery ==
  /\ args.fn = "compile"
  /\ CompiledNow < MaxCompilations
  /\ \E q \in FrameQueriesGiven.usql :
       out' = <<Compiled1(FrameHandler,
                          BuildDynatraceUSQLQuery(FrameHandler, q, RequestContext.Start,
                                                  RequestContext.End))>>
  /\ UNCHANGED <<env, args, request>>

NextFrame == CompileMetricsQuery \/ CompileUSQLQuery

SpecFrame == InitFrame /\ [][NextFrame]_vars

\* the labels, the project, the stage and the service are as received
EventAsReceived ==
  /\ out[1].KeptnEvent.Labels = args.Labels
  /\ out[1].KeptnEvent.Project = RequestContext.Project
  /\ out[1].KeptnEvent.Stage = RequestContext.Stage
  /\ out[1].KeptnEvent.Service = RequestContext.Service

\* C27 (as stated): after any number of query compilations the keys and the
\* values of the custom filters of the request, its labels and its project,
\* stage and service are the same as when the request was received
C27_RequestUnchanged ==
  out # <<>> => (out[1].CustomFilters = args.CustomFilters /\ EventAsReceived)

\* after any number of compilations the labels, the project, the stage and
\* the service are as received, the custom filters have the keys received,
\* in order, and each value is the one received without its ' and "
C27_OnlyQuotesStripped ==
  out # <<>> =>
    /\ EventAsReceived
    /\ Len(out[1].CustomFilters) = Len(args.CustomFilters)
    /\ \A i \in 1..Len(args.CustomFilters) :
         /\ out[1].CustomFilters[i].Key = args.CustomFilters[i].Key
         /\ out[1].CustomFilters[i].Value
              = ReplaceAll(ReplaceAll(args.CustomFilters[i].Value, "'", ""), "\"", "")

\* the filter tier = 'front' of the request is tier = front after one compile
C27_WitnessStripped ==
  /\ out # <<>> /\ out[1].compiled = 1
  /\ args.CustomFilters = <<[Key |-> "tier", Value |-> "'front'"]>>
  /\ out[1].CustomFilters = <<[Key |-> "tier", Value |-> "front"]>>
  /\ Contains(out[1].url, "front") /\ ~Contains(out[1].url, "%27")

\* a request whose filter values have no quotes is as received after
\* MaxCompilations compilations
C27_WitnessUnchanged ==
  /\ out # <<>> /\ out[1].compiled = MaxCompilations
  /\ Len(args.CustomFilters) = 1 /\ args.Labels # <<>>
  /\ out[1].CustomFilters = args.CustomFilters /\ EventAsReceived

(***************************************************************************)
(* From the dashboard compile to GetSLIValue: the indicators a compile     *)
(* stored in the SLI config are the custom queries of a later request,     *)
(* and GetSLIValue reads each of them up to its vendor call.  out holds    *)
(* the result of the compile and then what was read.                       *)
(***************************************************************************)
\* the tiles of the dashboards, one tile each: USQL tiles of three types
\* for two queries, a chart split by service and a chart of one value
RoundTilesGiven ==
  {DashboardTile("DTAQL", "sli=usql", "", q, t, "", <<>>) :
     q \in {"SELECT browserFamily, count(*) FROM usersession GROUP BY browserFamily",
            "SELECT userAgent, count(*) FROM usersession WHERE city = 'a;b'"},
     t \in {"SINGLE_VALUE", "PIE_CHART", "TABLE"}}
  \cup {TilesGiven.services, TilesGiven.chart}

\* the calls of QueryDynatraceDashboardForSLIs for these dashboards: the
\* vendor describes the metric with a unit and answers the USQL query with
\* a count, with browser families or with user agents
RoundCalls ==
  LET ok(body) == [err |-> NoErr, status |-> 200, body |-> body]
      described(unit) ==
        ok([valid |-> TRUE, metricId |-> "builtin:service.response.time",
            unit |-> unit, defaultAggregation |-> [Type |-> "AVG"],
            dimensionDefinitions |-> <<[Name |-> "dt.entity.service"]>>,
            entityType |-> <<"SERVICE">>])
      values == ok([valid |-> TRUE,
                    result |-> <<[metricId |-> "builtin:service.response.time:percentile(95.000000):names",
                                  data |-> <<[dimensions |-> <<"carts", "SERVICE-1">>,
                                              values |-> <<Float(2000, 1)>>]>>],
                                 [metricId |-> "builtin:service.response.time:merge(0):avg:names",
                                  data |-> <<[dimensions |-> <<>>,
                                              values |-> <<Float(1000, 1)>>]>>]>>])
      rows == {<< <<[num |-> Float(10, 1)]>> >>,
               << <<[str |-> "Chrome"], [num |-> Float(7, 1)]>>,
                  <<[str |-> "Internet Explorer"], [num |-> Float(3, 1)]>> >>,
               << <<[str |-> "Mozilla/5.0 (X11; Linux x86_64)"], [num |-> Float(4, 1)]>> >>}
  IN  [fn : {"QueryDynatraceDashboardForSLIs"},
       dashboard : {"ddb6a571-4bda-4e8b-a9c0-4a3e02c2e14a"},
       existing : {[err |-> "resource not found", content |-> ""]},
       list : {NotFound},
       get : {ok([valid |-> TRUE,
                  dashboard |->
                    [Dashboard("ddb6a571-4bda-4e8b-a9c0-4a3e02c2e14a",
                               "KQG;project=sockshop;service=carts;stage=dev",
                               [isNil |-> TRUE]) EXCEPT !.Tiles = <<t>>]]) :
                t \in RoundTilesGiven},
       vendor : {[describe |-> described(u), metrics |-> values,
                  usql |-> ok([valid |-> TRUE, values |-> r])] :
                   u \in {"MicroSecond", "Byte", ""}, r \in rows}]

InitRound ==
  /\ env = ""
  /\ Idle
  /\ args \in RoundCalls
  /\ out = <<>>

\* the handler of a later request whose custom queries are the indicators
\* the compile stored
StoredHandler == [DashboardHandler EXCEPT !.CustomQueries = out[1].dashboardSLI.Indicators]

\* GetSLIValue up to its vendor call for every indicator stored
ReadStoredIndicators ==
  /\ Len(out) = 1
  /\ args.fn = "QueryDynatraceDashboardForSLIs"
  /\ ~out[1].panic /\ ~out[1].dashboardSLI.isNil
  /\ out' = Append(out, [n \in DOMAIN out[1].dashboardSLI.Indicators |->
                           PrepareSLIQuery(StoredHandler, n, RequestContext.Start,
                                           RequestContext.End)])
  /\ UNCHANGED <<env, args, request>>

NextRound == CallQueryDynatraceDashboardForSLIs \/ ReadStoredIndicators

SpecRound == InitRound /\ [][NextRound]_vars

\* the tile of the dashboard and the unit the vendor described
TileGiven == args.get.body.dashboard.Tiles[1]
UnitGiven == args.vendor.describe.body.unit

\* the indicator name of the row dimension of a USQL tile
NameOfDimension(dimension) ==
  IF dimension = "" THEN "usql" ELSE "usql_" \o dimension

\* the dimensions of the rows of the USQL answer for the tile
DimensionsGiven ==
  IF TileGiven.Type = "SINGLE_VALUE" THEN {""}
  ELSE {args.vendor.usql.body.values[i][1].str : i \in 1..Len(args.vendor.usql.body.values)}

\* the stored entry of the dimension was read as the type of the tile, the
\* dimension and the query of the tile
ReadAsStored(dimension) ==
  /\ NameOfDimension(dimension) \in DOMAIN out[2]
  /\ out[2][NameOfDimension(dimension)].err = NoErr
  /\ ~out[2][NameOfDimension(dimension)].panic
  /\ out[2][NameOfDimension(dimension)].kind = "usql"
  /\ out[2][NameOfDimension(dimension)].tileName = TileGiven.Type
  /\ out[2][NameOfDimension(dimension)].requestedDimensionName = dimension
  /\ out[2][NameOfDimension(dimension)].url
       = BuildDynatraceUSQLQuery(DashboardHandler, TileGiven.Query, RequestContext.Start,
                                 RequestContext.End).url

\* the stored MV2 entry was read as the unit and the metrics query after it
ReadAsUnitAndQuery(name) ==
  /\ HasPrefix(out[1].dashboardSLI.Indicators[name], "MV2;" \o UnitGiven \o ";")
  /\ out[2][name].err = NoErr /\ ~out[2][name].panic
  /\ out[2][name].kind = "metrics"
  /\ out[2][name].metricUnit = UnitGiven
  /\ out[2][name].url
       = BuildDynatraceMetricsQuery(
           DashboardHandler,
           SubSeq(out[1].dashboardSLI.Indicators[name], Len("MV2;" \o UnitGiven \o ";") + 1,
                  Len(out[1].dashboardSLI.Indicators[name])),
           RequestContext.Start, RequestContext.End).url

\* the stored indicators were read and the rows gave results
StoredAndRead ==
  /\ Len(out) = 2
  /\ args.fn = "QueryDynatraceDashboardForSLIs"
  /\ out[1].sliResults # <<>>

\* C29 (as stated): every entry the compile stored for a successful result
\* is read by GetSLIValue as what was stored: a USQL entry splits into four
\* parts that are the type of the tile, the dimension of the row and the
\* query of the tile, an MV2 entry into the unit of the metric and the
\* metrics query, whatever the query, the dimension and the unit are
C29_StoredEntriesReadBack ==
  StoredAndRead =>
    IF TileGiven.TileType = "DTAQL"
    THEN \A d \in DimensionsGiven : ReadAsStored(d)
    ELSE \A n \in DOMAIN out[2] : ReadAsUnitAndQuery(n)

\* the entries are read as stored when the query of the tile and the
\* dimension of the row have no ";"
C29_ReadBackWithoutSemicolon ==
  StoredAndRead =>
    IF TileGiven.TileType = "DTAQL"
    THEN \A d \in DimensionsGiven :
           IF Contains(d, ";") \/ Contains(TileGiven.Query, ";")
           THEN /\ NameOfDimension(d) \in DOMAIN out[2]
                /\ HasPrefix(out[2][NameOfDimension(d)].err, "USQL Query incorrect format: USQL;")
           ELSE ReadAsStored(d)
    ELSE \A n \in DOMAIN out[2] : ReadAsUnitAndQuery(n)

\* the row of the user agent "Mozilla/5.0 (X11; Linux x86_64)" of a
\* PIE_CHART tile: the entry stored for it is refused
C29_WitnessDimension ==
  /\ StoredAndRead
  /\ TileGiven.Type = "PIE_CHART" /\ ~Contains(TileGiven.Query, ";")
  /\ out[1].sliResults[1].Success
  /\ out[1].sliResults[1].Metric = "usql_Mozilla/5.0 (X11; Linux x86_64)"
  /\ out[1].dashboardSLI.Indicators["usql_Mozilla/5.0 (X11; Linux x86_64)"]
       = "USQL;PIE_CHART;Mozilla/5.0 (X11; Linux x86_64);SELECT browserFamily, count(*) FROM usersession GROUP BY browserFamily"
  /\ HasPrefix(out[2]["usql_Mozilla/5.0 (X11; Linux x86_64)"].err, "USQL Query incorrect format")

\* a SINGLE_VALUE tile whose query has a ";": the entry is refused
C29_WitnessQuery ==
  /\ StoredAndRead
  /\ TileGiven.Type = "SINGLE_VALUE" /\ Contains(TileGiven.Query, ";")
  /\ out[1].sliResults[1].Success
  /\ HasPrefix(out[2]["usql"].err, "USQL Query incorrect format")

\* entries read as stored: the rows of Chrome and Internet Explorer of a
\* TABLE tile
C29_WitnessTable ==
  /\ StoredAndRead
  /\ TileGiven.Type = "TABLE" /\ DimensionsGiven = {"Chrome", "Internet Explorer"}
  /\ ReadAsStored("Chrome") /\ ReadAsStored("Internet Explorer")

\* the entry of a chart whose metric is in Byte
C29_WitnessUnit ==
  /\ StoredAndRead
  /\ TileGiven.TileType = "CUSTOM_CHARTING" /\ UnitGiven = "Byte"
  /\ "svc_rt" \in DOMAIN out[2]
  /\ ReadAsUnitAndQuery("svc_rt")
  /\ out[2]["svc_rt"].metricUnit = "Byte"

=============================================================================
